---------------------------- MODULE Spec2Model ----------------------------
(***************************************************************************)
(* A model of redisstore.py, the redis-based store for TiddlyWeb.          *)
(*                                                                         *)
(* A Python string is modelled as a sequence of tokens (<<>> is the empty  *)
(* string, a key such as 'bid:1:name' is <<"bid", ":", "1", ":", "name">>),*)
(* so that two keys are equal exactly when the formatted strings are.      *)
(* The redis database is the record db with one map per redis type.        *)
(* Every handler of Store is a step function: given the database and the   *)
(* locals of one call (with its position pc, named after the source line), *)
(* it gives the possible results of the next redis command of that call.   *)
(***************************************************************************)
EXTENDS Integers, Sequences, FiniteSets, TLC

VARIABLES
    db,      \* the redis database
    last,    \* the locals of the call that completed last (its results in them)
    before,  \* the database before the call that completed last
    live,    \* per entity type, the names put and not deleted since, each with
             \* what was put last (a tiddler: with the revision ids appended)
    issued,  \* per counter, the ids handed out by incr, in order
    cl,      \* per client, the locals of the call in progress
    calls,   \* per client, the number of calls started
    broken,  \* the bag_delete that was interrupted: its bag name, bag id and
             \* policy id
    workload, \* the entity type that the concurrent clients work on
    R,       \* the module global R: None or the backing-store client
    constructed, \* the number of URedis clients constructed in the process
    threads  \* per thread, its position in Store.__init__ and the self.redis
             \* of the Store it constructs

\* the variables of the process around the database
process == <<R, constructed, threads>>

vars == <<db, last, before, live, issued, cl, calls, broken, workload, process>>

---------------------------------------------------------------------------
(* Bounds of the model. *)

\* no counter is incremented past MaxId
MaxId == 3
\* calls started by the clients of the concurrent specification
MaxCalls == 3
\* recipe_put is not called on a recipe whose stored list would get longer
MaxRlist == 4
\* bags, recipes, users and tiddlers created in the specification of all types
MaxEntities == 2

---------------------------------------------------------------------------
(* Python values. *)

\* Python's None, a value different from every string
None == <<"<None>">>

\* '%s' % value (and str(value), which redis-py applies to what it stores)
Fmt(v) == IF v = None THEN <<"N", "o", "n", "e">> ELSE v

\* the truth value of a string or None
Truthy(v) == v # None /\ v # <<>>

\* the decimal string of an integer
IntStr(n) == <<ToString(n)>>

\* int(string)
StrInt(s) == CHOOSE n \in 0..(MaxId + 2) : IntStr(n) = s

\* the possible iteration orders of a set
RECURSIVE Orders(_)
Orders(S) ==
    IF S = {} THEN {<<>>}
    ELSE UNION {{<<x>> \o rest : rest \in Orders(S \ {x})} : x \in S}

SeqToSet(s) == {s[i] : i \in 1..Len(s)}

Reverse(s) == [i \in 1..Len(s) |-> s[Len(s) + 1 - i]]

---------------------------------------------------------------------------
(* The redis commands used by the store, on a database d.                  *)

EmptyDb == [str |-> <<>>, set |-> <<>>, list |-> <<>>, hash |-> <<>>]

Put(f, k, v) == [x \in (DOMAIN f) \cup {k} |-> IF x = k THEN v ELSE f[x]]

Drop(f, ks) == [x \in (DOMAIN f) \ ks |-> f[x]]

\* every key of the database
Keys(d) == DOMAIN d.str \cup DOMAIN d.set \cup DOMAIN d.list \cup DOMAIN d.hash

\* Redis.get: the value or None
Get(d, k) == IF k \in DOMAIN d.str THEN d.str[k] ELSE None

\* URedis.uget: the decoded value, or the falsy value itself
uget(d, k) == LET value == Get(d, k) IN value

\* Redis.set: stores str(v)
Set(d, k, v) == [d EXCEPT !.str = Put(d.str, k, Fmt(v))]

\* Redis.delete(*keys)
Delete(d, ks) ==
    [str |-> Drop(d.str, ks), set |-> Drop(d.set, ks),
     list |-> Drop(d.list, ks), hash |-> Drop(d.hash, ks)]

\* the integer value of a counter key
Counter(d, k) == IF k \in DOMAIN d.str THEN StrInt(d.str[k]) ELSE 0

\* Redis.incr: atomically adds one and returns the new value
Incr(d, k) ==
    LET n == Counter(d, k) + 1
    IN  [db |-> [d EXCEPT !.str = Put(d.str, k, IntStr(n))], val |-> n]

\* URedis.smembers
smembers(d, k) == IF k \in DOMAIN d.set THEN d.set[k] ELSE {}

\* Redis.sadd: stores str(member)
Sadd(d, k, m) == [d EXCEPT !.set = Put(d.set, k, smembers(d, k) \cup {Fmt(m)})]

\* Redis.srem: a set that becomes empty is no key any more
Srem(d, k, m) ==
    LET s == smembers(d, k) \ {Fmt(m)}
    IN  IF s = {} THEN [d EXCEPT !.set = Drop(d.set, {k})]
        ELSE [d EXCEPT !.set = Put(d.set, k, s)]

\* URedis.lrange(name, 0, -1)
lrange(d, k) == IF k \in DOMAIN d.list THEN d.list[k] ELSE <<>>

\* Redis.lindex(name, 0) and Redis.lindex(name, -1)
lindex(d, k, pos) ==
    LET l == lrange(d, k)
    IN  IF l = <<>> THEN None
        ELSE IF pos = 0 THEN l[1] ELSE l[Len(l)]

\* Redis.rpush: stores str(v)
Rpush(d, k, v) == [d EXCEPT !.list = Put(d.list, k, Append(lrange(d, k), Fmt(v)))]

\* Redis.hmset
Hmset(d, k, mapping) ==
    LET old == IF k \in DOMAIN d.hash THEN d.hash[k] ELSE <<>>
    IN  [d EXCEPT !.hash =
            Put(d.hash, k, [f \in (DOMAIN old) \cup (DOMAIN mapping) |->
                               IF f \in DOMAIN mapping THEN mapping[f] ELSE old[f]])]

\* URedis.hgetall
hgetall(d, k) == IF k \in DOMAIN d.hash THEN d.hash[k] ELSE <<>>

---------------------------------------------------------------------------
(* Keys. *)

\* ENTITY_MAP
ENTITY_MAP(entity) ==
    CASE entity = "user" -> "uid"
      [] entity = "recipe" -> "rid"
      [] entity = "bag" -> "bid"

\* '%s:%s:%s' % (entity, name, entity_id): the forward pointer of a name
EntityKey(entity, name) == <<entity, ":">> \o Fmt(name) \o <<":", ENTITY_MAP(entity)>>

\* '<idfield>:%s:<attr>' % id: an attribute of an id
AttrKey(idfield, id, attr) == <<idfield, ":">> \o Fmt(id) \o <<":", attr>>

\* 'tiddler:%s:%s:tid' % (bag, title): the forward pointer of a tiddler
TiddlerKey(bag, title) ==
    <<"tiddler", ":">> \o Fmt(bag) \o <<":">> \o Fmt(title) \o <<":", "tid">>

\* the counters
CounterKey(entity) == <<"ids", ":", "next", entity, "ID">>

\* Policy.attributes: the five principal sets, then the owner
PolicyAttributes == <<"manage", "accept", "create", "read", "write", "owner">>

\* Policy(): no principals, no owner
EmptyPolicy ==
    [manage |-> {}, accept |-> {}, create |-> {}, read |-> {}, write |-> {},
     owner |-> None]

---------------------------------------------------------------------------
(* Calls: the locals of one call of a handler. *)

NewCall(op, arg) ==
    [op |-> op, pc |-> "start", arg |-> arg, exc |-> "", ret |-> None,
     bid |-> None, rid |-> None, uid |-> None, pid |-> None, tid |-> None,
     rvid |-> None, current_rvid |-> None, base_rvid |-> None, retpc |-> "done",
     title |-> None, tbid |-> None, ttid |-> None,
     todo |-> <<>>, attrs |-> <<>>, members |-> <<>>, revs |-> <<>>,
     acc |-> <<>>, policy |-> EmptyPolicy,
     tiddler |-> [bag |-> None, title |-> None]]

Idle == NewCall("idle", None)

Done(l) == l.pc = "done"

\* one result of a step: the database and the locals after it
Out(d, l) == {[db |-> d, l |-> l]}

Goto(d, l, pc) == Out(d, [l EXCEPT !.pc = pc])

Raise(d, l, exc) == Out(d, [l EXCEPT !.pc = "done", !.exc = exc])

---------------------------------------------------------------------------
(* The policy helpers, called by the bag and the recipe handlers.  The     *)
(* caller sets retpc, the position at which it continues.                  *)

\* the key that holds the policy id of the container of the call
PolicyKey(l) ==
    IF l.op \in {"bag_put", "bag_get", "bag_delete"}
    THEN AttrKey("bid", l.bid, "policy")
    ELSE AttrKey("rid", l.rid, "policy")

\* the position of the loop over Policy.attributes for the attributes left
Loop(l, attrs, owner_pc, set_pc) ==
    [l EXCEPT !.attrs = attrs,
              !.pc = IF attrs = <<>> THEN l.retpc
                     ELSE IF Head(attrs) = "owner" THEN owner_pc ELSE set_pc]

set_policy_merge(d, l) ==
    LET container_policy == l.arg.policy
        constraint == Head(l.attrs)
        key == AttrKey("pid", l.pid, constraint)
    IN  CASE l.pc = "P448" ->
               LET r == Incr(d, CounterKey("Policy"))
               IN  Out(r.db, Loop([l EXCEPT !.pid = IntStr(r.val)],
                                  PolicyAttributes, "P452", "P457"))
          [] l.pc = "P452" ->
               Out(Set(d, AttrKey("pid", l.pid, "owner"),
                       IF Truthy(container_policy.owner)
                       THEN container_policy.owner ELSE <<>>),
                   Loop(l, Tail(l.attrs), "P452", "P457"))
          [] l.pc = "P457" ->
               LET members == container_policy[constraint]
               IN  IF members = <<>>
                   THEN Out(d, Loop(l, Tail(l.attrs), "P452", "P457"))
                   ELSE Out(d, [l EXCEPT !.members = members, !.pc = "P459"])
          [] l.pc = "P459" ->
               LET rest == Tail(l.members)
               IN  IF rest = <<>>
                   THEN Out(Sadd(d, key, Head(l.members)),
                            Loop([l EXCEPT !.members = <<>>], Tail(l.attrs),
                                 "P452", "P457"))
                   ELSE Out(Sadd(d, key, Head(l.members)),
                            [l EXCEPT !.members = rest])

\* Store._set_policy, from the increment of the policy counter on
set_policy(d, l) ==
    LET container_policy == l.arg.policy
        constraint == Head(l.attrs)
        key == AttrKey("pid", l.pid, constraint)
    IN  CASE l.pc = "P448" ->
               LET r == Incr(d, CounterKey("Policy"))
               IN  Out(r.db, Loop([l EXCEPT !.pid = IntStr(r.val)],
                                  PolicyAttributes, "P452", "P457"))
          [] l.pc = "P452" ->
               Out(Set(d, AttrKey("pid", l.pid, "owner"),
                       IF Truthy(container_policy.owner)
                       THEN container_policy.owner ELSE <<>>),
                   Loop(l, Tail(l.attrs), "P452", "P457"))
          [] l.pc = "P457" ->
               LET members == container_policy[constraint]
               IN  IF members = <<>>
                   THEN Out(Delete(d, {key}), Loop(l, Tail(l.attrs), "P452", "P457"))
                   ELSE Out(Delete(d, {key}),
                            [l EXCEPT !.members = members, !.pc = "P459"])
          [] l.pc = "P459" ->
               LET rest == Tail(l.members)
               IN  IF rest = <<>>
                   THEN Out(Sadd(d, key, Head(l.members)),
                            Loop([l EXCEPT !.members = <<>>], Tail(l.attrs),
                                 "P452", "P457"))
                   ELSE Out(Sadd(d, key, Head(l.members)),
                            [l EXCEPT !.members = rest])

enter_set_policy_fresh(l, pid, retpc) ==
    [l EXCEPT !.pid = pid, !.retpc = retpc, !.pc = "P448"]

\* the call of _set_policy(policy, pid) with the pid just read: 'if not pid'
enter_set_policy(l, pid, retpc) ==
    IF Truthy(pid)
    THEN Loop([l EXCEPT !.pid = pid, !.retpc = retpc], PolicyAttributes, "P452", "P457")
    ELSE [l EXCEPT !.pid = pid, !.retpc = retpc, !.pc = "P448"]

\* Store._get_policy
get_policy(d, l) ==
    CASE l.pc = "G409" ->
           LET pid == uget(d, PolicyKey(l))
           IN  IF ~Truthy(pid)
               THEN Out(d, [l EXCEPT !.pid = pid, !.policy = EmptyPolicy, !.pc = l.retpc])
               ELSE Out(d, Loop([l EXCEPT !.pid = pid, !.policy = EmptyPolicy],
                                PolicyAttributes, "G415", "G420"))
      [] l.pc = "G415" ->
           LET owner == uget(d, AttrKey("pid", l.pid, "owner"))
           IN  Out(d, Loop([l EXCEPT !.policy.owner = IF owner = <<>> THEN None ELSE owner],
                           Tail(l.attrs), "G415", "G420"))
      [] l.pc = "G420" ->
           LET values == smembers(d, AttrKey("pid", l.pid, Head(l.attrs)))
           IN  Out(d, Loop([l EXCEPT !.policy = [@ EXCEPT ![Head(l.attrs)] = values]],
                           Tail(l.attrs), "G415", "G420"))

\* Store._delete_policy: one key of the policy is deleted per step
delete_policy(d, l) ==
    LET key == AttrKey("pid", l.pid, Head(l.attrs))
        rest == Tail(l.attrs)
    IN  Out(Delete(d, {key}),
            [l EXCEPT !.attrs = rest, !.pc = IF rest = <<>> THEN l.retpc ELSE "Q406"])

---------------------------------------------------------------------------
(* Tiddlers. *)

\* the keys of the revisions and of the tiddler that tiddler_delete deletes
TiddlerDeleteKeys(revision_ids, tid, tiddler) ==
    {AttrKey("rvid", revision_ids[i], field) :
        i \in 1..Len(revision_ids),
        field \in {"text", "tags", "modified", "modifier", "fields", "tid"}}
    \cup {AttrKey("tid", tid, field) : field \in {"title", "bid", "revisions"}}
    \cup {TiddlerKey(tiddler.bag, tiddler.title)}

\* tiddler_delete, had it left out the srem of line 269
tiddler_delete_keeps_member(d, l) ==
    LET tiddler == l.tiddler
    IN  CASE l.pc = "L248" ->
               LET bid == uget(d, EntityKey("bag", tiddler.bag))
               IN  IF ~Truthy(bid) THEN Raise(d, l, "NoBagError")
                   ELSE Out(d, [l EXCEPT !.tbid = bid, !.pc = "L252"])
          [] l.pc = "L252" ->
               LET tid == uget(d, TiddlerKey(tiddler.bag, tiddler.title))
               IN  IF ~Truthy(tid) THEN Raise(d, l, "NoTiddlerError")
                   ELSE Out(d, [l EXCEPT !.ttid = tid, !.pc = "L257"])
          [] l.pc = "L257" ->
               Out(d, [l EXCEPT !.revs = lrange(d, AttrKey("tid", l.ttid, "revisions")),
                                !.pc = "L267"])
          [] l.pc = "L267" ->
               Out(Delete(d, TiddlerDeleteKeys(l.revs, l.ttid, tiddler)),
                   [l EXCEPT !.pc = "L269"])
          [] l.pc = "L269" ->
               Out(d, [l EXCEPT !.pc = "L270"])
          [] l.pc = "L270" ->
               Out(Delete(d, {TiddlerKey(tiddler.bag, tiddler.title)}),
                   [l EXCEPT !.pc = l.retpc])

\* Store.tiddler_delete of l.tiddler; called by bag_delete as well
tiddler_delete(d, l) ==
    LET tiddler == l.tiddler
    IN  CASE l.pc = "L248" ->
               LET bid == uget(d, EntityKey("bag", tiddler.bag))
               IN  IF ~Truthy(bid) THEN Raise(d, l, "NoBagError")
                   ELSE Out(d, [l EXCEPT !.tbid = bid, !.pc = "L252"])
          [] l.pc = "L252" ->
               LET tid == uget(d, TiddlerKey(tiddler.bag, tiddler.title))
               IN  IF ~Truthy(tid) THEN Raise(d, l, "NoTiddlerError")
                   ELSE Out(d, [l EXCEPT !.ttid = tid, !.pc = "L257"])
          [] l.pc = "L257" ->
               Out(d, [l EXCEPT !.revs = lrange(d, AttrKey("tid", l.ttid, "revisions")),
                                !.pc = "L267"])
          [] l.pc = "L267" ->
               Out(Delete(d, TiddlerDeleteKeys(l.revs, l.ttid, tiddler)),
                   [l EXCEPT !.pc = "L269"])
          [] l.pc = "L269" ->
               Out(Srem(d, AttrKey("bid", l.tbid, "tiddlers"), l.ttid),
                   [l EXCEPT !.pc = "L270"])
          [] l.pc = "L270" ->
               Out(Delete(d, {TiddlerKey(tiddler.bag, tiddler.title)}),
                   [l EXCEPT !.pc = l.retpc])

---------------------------------------------------------------------------
(* Bags. *)

delete_bag_tiddlers_none(d, l) == Goto(d, l, "L160")

\* Store._delete_bag_tiddlers: the loop over the tiddler ids read at L397
delete_bag_tiddlers(d, l) ==
    CASE l.pc = "L397" ->
           {[db |-> d, l |-> [l EXCEPT !.todo = tiddler_ids,
                                       !.pc = IF tiddler_ids = <<>> THEN "L160" ELSE "L399"]] :
               tiddler_ids \in Orders(smembers(d, AttrKey("bid", l.bid, "tiddlers")))}
      [] l.pc = "L399" ->
           LET tid == Head(l.todo)
               title == uget(d, AttrKey("tid", tid, "title"))
               rest == Tail(l.todo)
           IN  Out(d, [l EXCEPT !.todo = rest,
                                !.tiddler = [bag |-> l.arg.name, title |-> title],
                                !.retpc = IF rest = <<>> THEN "L160" ELSE "L399",
                                !.pc = "L248"])

\* bag_delete, had line 160 left the forward pointer bag:<name>:bid in place
bag_delete_keeps_pointer(d, l) ==
    LET bag == l.arg
    IN  CASE l.pc = "start" ->
               LET bid == uget(d, EntityKey("bag", bag.name))
               IN  IF ~Truthy(bid) THEN Raise(d, l, "NoBagError")
                   ELSE Out(d, [l EXCEPT !.bid = bid, !.pc = "L397"])
          [] l.pc = "L160" ->
               Out(Delete(d, {AttrKey("bid", l.bid, key_name) :
                                 key_name \in {"tiddlers", "name", "desc"}}),
                   [l EXCEPT !.pc = "L162"])
          [] l.pc = "L162" ->
               Out(d, [l EXCEPT !.pid = uget(d, AttrKey("bid", l.bid, "policy")),
                                !.attrs = PolicyAttributes, !.retpc = "L165",
                                !.pc = "Q406"])
          [] l.pc = "L165" ->
               Out(Srem(d, <<"bags">>, l.bid), [l EXCEPT !.pc = "done"])

\* Store.bag_delete
bag_delete(d, l) ==
    LET bag == l.arg
    IN  CASE l.pc = "start" ->
               LET bid == uget(d, EntityKey("bag", bag.name))
               IN  IF ~Truthy(bid) THEN Raise(d, l, "NoBagError")
                   ELSE Out(d, [l EXCEPT !.bid = bid, !.pc = "L397"])
          [] l.pc = "L160" ->
               Out(Delete(d, {AttrKey("bid", l.bid, key_name) :
                                 key_name \in {"tiddlers", "name", "desc"}}
                             \cup {EntityKey("bag", bag.name)}),
                   [l EXCEPT !.pc = "L162"])
          [] l.pc = "L162" ->
               Out(d, [l EXCEPT !.pid = uget(d, AttrKey("bid", l.bid, "policy")),
                                !.attrs = PolicyAttributes, !.retpc = "L165",
                                !.pc = "Q406"])
          [] l.pc = "L165" ->
               Out(Srem(d, <<"bags">>, l.bid), [l EXCEPT !.pc = "done"])

\* Store.bag_get
bag_get(d, l) ==
    LET bag == l.arg
    IN  CASE l.pc = "start" ->
               LET bid == uget(d, EntityKey("bag", bag.name))
               IN  IF ~Truthy(bid) THEN Raise(d, l, "NoBagError")
                   ELSE Out(d, [l EXCEPT !.bid = bid, !.pc = "L172"])
          [] l.pc = "L172" ->
               Out(d, [l EXCEPT !.ret = uget(d, AttrKey("bid", l.bid, "desc")),
                                !.retpc = "done", !.pc = "G409"])

\* bag_put, had line 181 read the counter with get and written it back with
\* set, two commands, in place of the one incr
bag_put_get_then_set(d, l) ==
    LET bag == l.arg
    IN  CASE l.pc = "start" ->
               LET bid == uget(d, EntityKey("bag", bag.name))
               IN  Out(d, [l EXCEPT !.bid = bid,
                                    !.pc = IF ~Truthy(bid) THEN "L181" ELSE "L184"])
          [] l.pc = "L181" ->
               Out(d, [l EXCEPT !.bid = IntStr(Counter(d, CounterKey("Bag")) + 1),
                                !.pc = "L181set"])
          [] l.pc = "L181set" ->
               Out(Set(d, CounterKey("Bag"), l.bid), [l EXCEPT !.pc = "L182"])
          [] l.pc = "L182" ->
               Out(Set(d, EntityKey("bag", bag.name), l.bid), [l EXCEPT !.pc = "L184"])
          [] l.pc = "L184" ->
               Out(Set(d, AttrKey("bid", l.bid, "name"), bag.name),
                   [l EXCEPT !.pc = "L185"])
          [] l.pc = "L185" ->
               Out(Set(d, AttrKey("bid", l.bid, "desc"), bag.desc),
                   [l EXCEPT !.pc = "L187"])
          [] l.pc = "L187" ->
               Out(d, enter_set_policy(l, uget(d, AttrKey("bid", l.bid, "policy")),
                                       "L189"))
          [] l.pc = "L189" ->
               Out(Set(d, AttrKey("bid", l.bid, "policy"), l.pid),
                   [l EXCEPT !.pc = "L191"])
          [] l.pc = "L191" ->
               Out(Sadd(d, <<"bags">>, l.bid), [l EXCEPT !.pc = "done"])

\* Store.bag_put
bag_put(d, l) ==
    LET bag == l.arg
    IN  CASE l.pc = "start" ->
               LET bid == uget(d, EntityKey("bag", bag.name))
               IN  Out(d, [l EXCEPT !.bid = bid,
                                    !.pc = IF ~Truthy(bid) THEN "L181" ELSE "L184"])
          [] l.pc = "L181" ->
               LET r == Incr(d, CounterKey("Bag"))
               IN  Out(r.db, [l EXCEPT !.bid = IntStr(r.val), !.pc = "L182"])
          [] l.pc = "L182" ->
               Out(Set(d, EntityKey("bag", bag.name), l.bid), [l EXCEPT !.pc = "L184"])
          [] l.pc = "L184" ->
               Out(Set(d, AttrKey("bid", l.bid, "name"), bag.name),
                   [l EXCEPT !.pc = "L185"])
          [] l.pc = "L185" ->
               Out(Set(d, AttrKey("bid", l.bid, "desc"), bag.desc),
                   [l EXCEPT !.pc = "L187"])
          [] l.pc = "L187" ->
               Out(d, enter_set_policy(l, uget(d, AttrKey("bid", l.bid, "policy")),
                                       "L189"))
          [] l.pc = "L189" ->
               Out(Set(d, AttrKey("bid", l.bid, "policy"), l.pid),
                   [l EXCEPT !.pc = "L191"])
          [] l.pc = "L191" ->
               Out(Sadd(d, <<"bags">>, l.bid), [l EXCEPT !.pc = "done"])

\* Store.list_bags: the names are read as the generator is consumed
list_bags(d, l) ==
    CASE l.pc = "start" ->
           {[db |-> d, l |-> [l EXCEPT !.todo = bids,
                                       !.pc = IF bids = <<>> THEN "done" ELSE "L359"]] :
               bids \in Orders(smembers(d, <<"bags">>))}
      [] l.pc = "L359" ->
           LET name == uget(d, AttrKey("bid", Head(l.todo), "name"))
               rest == Tail(l.todo)
           IN  Out(d, [l EXCEPT !.acc = Append(@, name), !.todo = rest,
                                !.pc = IF rest = <<>> THEN "done" ELSE "L359"])

\* Store.list_bag_tiddlers
list_bag_tiddlers(d, l) ==
    LET bag == l.arg
    IN  CASE l.pc = "start" ->
               LET bid == uget(d, EntityKey("bag", bag.name))
               IN  IF ~Truthy(bid) THEN Raise(d, l, "NoBagError")
                   ELSE Out(d, [l EXCEPT !.bid = bid, !.pc = "L380"])
          [] l.pc = "L380" ->
               {[db |-> d, l |-> [l EXCEPT !.todo = tids,
                                           !.pc = IF tids = <<>> THEN "done" ELSE "L382"]] :
                   tids \in Orders(smembers(d, AttrKey("bid", l.bid, "tiddlers")))}
          [] l.pc = "L382" ->
               LET title == uget(d, AttrKey("tid", Head(l.todo), "title"))
                   rest == Tail(l.todo)
               IN  Out(d, [l EXCEPT !.acc = Append(@, [title |-> title, bag |-> bag.name]),
                                    !.todo = rest,
                                    !.pc = IF rest = <<>> THEN "done" ELSE "L382"])

---------------------------------------------------------------------------
(* Tiddlers: put, get and the revisions. *)

\* the fields that _new_revision stores: those without the 'server.' prefix
StoredFields(fields) ==
    [field \in {f \in DOMAIN fields : ~(Len(f) >= 1 /\ f[1] = "server.")} |->
        fields[field]]

\* Store._new_revision
new_revision(d, l) ==
    LET tiddler == l.arg
        after_tags == IF DOMAIN tiddler.fields # {} THEN "N443" ELSE l.retpc
    IN  CASE l.pc = "N430" ->
               LET r == Incr(d, CounterKey("Revision"))
               IN  Out(r.db, [l EXCEPT !.rvid = IntStr(r.val), !.pc = "N431"])
          [] l.pc = "N431" ->
               Out(Set(d, AttrKey("rvid", l.rvid, "text"), tiddler.text),
                   [l EXCEPT !.pc = "N432"])
          [] l.pc = "N432" ->
               Out(Set(d, AttrKey("rvid", l.rvid, "modifier"), tiddler.modifier),
                   [l EXCEPT !.pc = "N433"])
          [] l.pc = "N433" ->
               Out(Set(d, AttrKey("rvid", l.rvid, "modified"), tiddler.modified),
                   [l EXCEPT !.pc = "N434"])
          [] l.pc = "N434" ->
               Out(Set(d, AttrKey("rvid", l.rvid, "type"), tiddler.type),
                   [l EXCEPT !.pc = "N435"])
          [] l.pc = "N435" ->
               Out(Set(d, AttrKey("rvid", l.rvid, "tid"), l.tid),
                   [l EXCEPT !.members = tiddler.tags,
                             !.pc = IF tiddler.tags = <<>> THEN after_tags ELSE "N437"])
          [] l.pc = "N437" ->
               LET rest == Tail(l.members)
               IN  Out(Sadd(d, AttrKey("rvid", l.rvid, "tags"), Head(l.members)),
                       [l EXCEPT !.members = rest,
                                 !.pc = IF rest = <<>> THEN after_tags ELSE "N437"])
          [] l.pc = "N443" ->
               \* HMSET with no field is an error of the redis command
               IF DOMAIN StoredFields(tiddler.fields) = {}
               THEN Raise(d, l, "ResponseError")
               ELSE Out(Hmset(d, AttrKey("rvid", l.rvid, "fields"),
                              StoredFields(tiddler.fields)),
                        [l EXCEPT !.pc = l.retpc])

\* tiddler_put, had it tested the bag id only after it had resolved or created
\* the tiddler id
tiddler_put_tests_bag_late(d, l) ==
    LET tiddler == l.arg
    IN  CASE l.pc = "start" ->
               LET bid == uget(d, EntityKey("bag", tiddler.bag))
               IN  Out(d, [l EXCEPT !.bid = bid, !.pc = "L304"])
          [] l.pc = "L304" ->
               LET tid == uget(d, TiddlerKey(tiddler.bag, tiddler.title))
               IN  Out(d, [l EXCEPT !.tid = tid, !.retpc = "L312",
                                    !.pc = IF ~Truthy(tid) THEN "L306" ELSE "N430"])
          [] l.pc = "L306" ->
               LET r == Incr(d, CounterKey("Tiddler"))
               IN  Out(r.db, [l EXCEPT !.tid = IntStr(r.val), !.pc = "L307"])
          [] l.pc = "L307" ->
               Out(Set(d, TiddlerKey(tiddler.bag, tiddler.title), l.tid),
                   [l EXCEPT !.pc = "L309"])
          [] l.pc = "L309" ->
               IF ~Truthy(l.bid) THEN Raise(d, l, "NoBagError")
               ELSE Out(Set(d, AttrKey("tid", l.tid, "title"), tiddler.title),
                        [l EXCEPT !.pc = "L310"])
          [] l.pc = "L310" ->
               Out(Set(d, AttrKey("tid", l.tid, "bid"), l.bid),
                   [l EXCEPT !.pc = "N430"])
          [] l.pc = "L312" ->
               Out(Rpush(d, AttrKey("tid", l.tid, "revisions"), l.rvid),
                   [l EXCEPT !.pc = "L313"])
          [] l.pc = "L313" ->
               Out(Sadd(d, AttrKey("bid", l.bid, "tiddlers"), l.tid),
                   [l EXCEPT !.pc = "done"])

\* Store.tiddler_put
tiddler_put(d, l) ==
    LET tiddler == l.arg
    IN  CASE l.pc = "start" ->
               LET bid == uget(d, EntityKey("bag", tiddler.bag))
               IN  IF ~Truthy(bid) THEN Raise(d, l, "NoBagError")
                   ELSE Out(d, [l EXCEPT !.bid = bid, !.pc = "L304"])
          [] l.pc = "L304" ->
               LET tid == uget(d, TiddlerKey(tiddler.bag, tiddler.title))
               IN  Out(d, [l EXCEPT !.tid = tid, !.retpc = "L312",
                                    !.pc = IF ~Truthy(tid) THEN "L306" ELSE "N430"])
          [] l.pc = "L306" ->
               LET r == Incr(d, CounterKey("Tiddler"))
               IN  Out(r.db, [l EXCEPT !.tid = IntStr(r.val), !.pc = "L307"])
          [] l.pc = "L307" ->
               Out(Set(d, TiddlerKey(tiddler.bag, tiddler.title), l.tid),
                   [l EXCEPT !.pc = "L309"])
          [] l.pc = "L309" ->
               Out(Set(d, AttrKey("tid", l.tid, "title"), tiddler.title),
                   [l EXCEPT !.pc = "L310"])
          [] l.pc = "L310" ->
               Out(Set(d, AttrKey("tid", l.tid, "bid"), l.bid),
                   [l EXCEPT !.pc = "N430"])
          [] l.pc = "L312" ->
               Out(Rpush(d, AttrKey("tid", l.tid, "revisions"), l.rvid),
                   [l EXCEPT !.pc = "L313"])
          [] l.pc = "L313" ->
               Out(Sadd(d, AttrKey("bid", l.bid, "tiddlers"), l.tid),
                   [l EXCEPT !.pc = "done"])

\* the attributes of a tiddler that tiddler_get fills
EmptyTiddler ==
    [creator |-> None, created |-> None, modifier |-> None, modified |-> None,
     type |-> None, tags |-> {}, fields |-> <<>>, text |-> None, revision |-> None]

\* tiddler_get, had it read the last revision whatever revision was requested
tiddler_get_ignores_revision(d, l) ==
    LET tiddler == l.arg
        rkey(field) == AttrKey("rvid", l.current_rvid, field)
    IN  CASE l.pc = "start" ->
               LET tid == uget(d, TiddlerKey(tiddler.bag, tiddler.title))
               IN  IF ~Truthy(tid) THEN Raise(d, l, "NoTiddlerError")
                   ELSE Out(d, [l EXCEPT !.tid = tid, !.ret = EmptyTiddler,
                                         !.pc = "L280"])
          [] l.pc = "L280" ->
               Out(d, [l EXCEPT !.current_rvid =
                                    lindex(d, AttrKey("tid", l.tid, "revisions"), -1),
                                !.pc = "L281"])
          [] l.pc = "L281" ->
               Out(d, [l EXCEPT !.base_rvid =
                                    lindex(d, AttrKey("tid", l.tid, "revisions"), 0),
                                !.pc = "L282"])
          [] l.pc = "L282" ->
               Out(d, [l EXCEPT !.ret.creator =
                                    uget(d, AttrKey("rvid", l.base_rvid, "modifier")),
                                !.pc = "L283"])
          [] l.pc = "L283" ->
               Out(d, [l EXCEPT !.ret.created =
                                    uget(d, AttrKey("rvid", l.base_rvid, "modified")),
                                !.pc = "L284"])
          [] l.pc = "L284" ->
               LET modifier == uget(d, rkey("modifier"))
               IN  IF ~Truthy(modifier)
                   THEN Raise(d, [l EXCEPT !.ret.modifier = modifier], "NoTiddlerError")
                   ELSE Out(d, [l EXCEPT !.ret.modifier = modifier, !.pc = "L288"])
          [] l.pc = "L288" ->
               Out(d, [l EXCEPT !.ret.modified = uget(d, rkey("modified")),
                                !.pc = "L289"])
          [] l.pc = "L289" ->
               Out(d, [l EXCEPT !.ret.type = uget(d, rkey("type")), !.pc = "L290"])
          [] l.pc = "L290" ->
               Out(d, [l EXCEPT !.ret.tags = smembers(d, rkey("tags")), !.pc = "L291"])
          [] l.pc = "L291" ->
               Out(d, [l EXCEPT !.ret.fields = hgetall(d, rkey("fields")),
                                !.pc = "L293"])
          [] l.pc = "L293" ->
               \* Redis.get for a binary tiddler, uget otherwise
               Out(d, [l EXCEPT !.ret.text = uget(d, rkey("text")),
                                !.ret.revision = l.current_rvid,
                                !.pc = "done"])

\* Store.tiddler_get
tiddler_get(d, l) ==
    LET tiddler == l.arg
        rkey(field) == AttrKey("rvid", l.current_rvid, field)
    IN  CASE l.pc = "start" ->
               LET tid == uget(d, TiddlerKey(tiddler.bag, tiddler.title))
               IN  IF ~Truthy(tid) THEN Raise(d, l, "NoTiddlerError")
                   ELSE IF Truthy(tiddler.revision)
                   THEN Out(d, [l EXCEPT !.tid = tid, !.ret = EmptyTiddler,
                                         !.current_rvid = tiddler.revision,
                                         !.pc = "L281"])
                   ELSE Out(d, [l EXCEPT !.tid = tid, !.ret = EmptyTiddler,
                                         !.pc = "L280"])
          [] l.pc = "L280" ->
               Out(d, [l EXCEPT !.current_rvid =
                                    lindex(d, AttrKey("tid", l.tid, "revisions"), -1),
                                !.pc = "L281"])
          [] l.pc = "L281" ->
               Out(d, [l EXCEPT !.base_rvid =
                                    lindex(d, AttrKey("tid", l.tid, "revisions"), 0),
                                !.pc = "L282"])
          [] l.pc = "L282" ->
               Out(d, [l EXCEPT !.ret.creator =
                                    uget(d, AttrKey("rvid", l.base_rvid, "modifier")),
                                !.pc = "L283"])
          [] l.pc = "L283" ->
               Out(d, [l EXCEPT !.ret.created =
                                    uget(d, AttrKey("rvid", l.base_rvid, "modified")),
                                !.pc = "L284"])
          [] l.pc = "L284" ->
               LET modifier == uget(d, rkey("modifier"))
               IN  IF ~Truthy(modifier)
                   THEN Raise(d, [l EXCEPT !.ret.modifier = modifier], "NoTiddlerError")
                   ELSE Out(d, [l EXCEPT !.ret.modifier = modifier, !.pc = "L288"])
          [] l.pc = "L288" ->
               Out(d, [l EXCEPT !.ret.modified = uget(d, rkey("modified")),
                                !.pc = "L289"])
          [] l.pc = "L289" ->
               Out(d, [l EXCEPT !.ret.type = uget(d, rkey("type")), !.pc = "L290"])
          [] l.pc = "L290" ->
               Out(d, [l EXCEPT !.ret.tags = smembers(d, rkey("tags")), !.pc = "L291"])
          [] l.pc = "L291" ->
               Out(d, [l EXCEPT !.ret.fields = hgetall(d, rkey("fields")),
                                !.pc = "L293"])
          [] l.pc = "L293" ->
               \* Redis.get for a binary tiddler, uget otherwise
               Out(d, [l EXCEPT !.ret.text = uget(d, rkey("text")),
                                !.ret.revision = l.current_rvid,
                                !.pc = "done"])

list_tiddler_revisions_oldest_first(d, l) ==
    LET tiddler == l.arg
    IN  CASE l.pc = "start" ->
               LET tid == uget(d, TiddlerKey(tiddler.bag, tiddler.title))
               IN  IF ~Truthy(tid) THEN Raise(d, l, "NoTiddlerError")
                   ELSE Out(d, [l EXCEPT !.tid = tid, !.pc = "L392"])
          [] l.pc = "L392" ->
               LET ids == lrange(d, AttrKey("tid", l.tid, "revisions"))
                   revisions == [i \in 1..Len(ids) |-> StrInt(ids[i])]
               IN  Out(d, [l EXCEPT !.acc = revisions, !.pc = "done"])

\* Store.list_tiddler_revisions
list_tiddler_revisions(d, l) ==
    LET tiddler == l.arg
    IN  CASE l.pc = "start" ->
               LET tid == uget(d, TiddlerKey(tiddler.bag, tiddler.title))
               IN  IF ~Truthy(tid) THEN Raise(d, l, "NoTiddlerError")
                   ELSE Out(d, [l EXCEPT !.tid = tid, !.pc = "L392"])
          [] l.pc = "L392" ->
               LET ids == lrange(d, AttrKey("tid", l.tid, "revisions"))
                   revisions == [i \in 1..Len(ids) |-> StrInt(ids[i])]
               IN  Out(d, [l EXCEPT !.acc = Reverse(revisions), !.pc = "done"])

---------------------------------------------------------------------------
(* Recipes. *)

\* '%s?%s' % (bag, filter_string)
JoinRecipeItem(bag, filter_string) == Fmt(bag) \o <<"?">> \o Fmt(filter_string)

\* bag_filter.split('?', 1): the parts before and after the first '?', or
\* the whole string alone when it has none
Split(bag_filter) ==
    LET at == {i \in 1..Len(bag_filter) : bag_filter[i] = "?"}
    IN  IF at = {} THEN <<bag_filter>>
        ELSE LET i == CHOOSE j \in at : \A k \in at : j <= k
             IN  <<SubSeq(bag_filter, 1, i - 1),
                   SubSeq(bag_filter, i + 1, Len(bag_filter))>>

\* Store.recipe_delete
recipe_delete(d, l) ==
    LET recipe == l.arg
    IN  CASE l.pc = "start" ->
               LET rid == uget(d, EntityKey("recipe", recipe.name))
               IN  IF ~Truthy(rid) THEN Raise(d, l, "NoRecipeError")
                   ELSE Out(d, [l EXCEPT !.rid = rid, !.pc = "L202"])
          [] l.pc = "L202" ->
               Out(Delete(d, {AttrKey("rid", l.rid, key_name) :
                                 key_name \in {"name", "desc", "rlist"}}
                             \cup {EntityKey("recipe", recipe.name)}),
                   [l EXCEPT !.pc = "L204"])
          [] l.pc = "L204" ->
               Out(d, [l EXCEPT !.pid = uget(d, AttrKey("rid", l.rid, "policy")),
                                !.attrs = PolicyAttributes, !.retpc = "L207",
                                !.pc = "Q406"])
          [] l.pc = "L207" ->
               Out(Srem(d, <<"recipes">>, l.rid), [l EXCEPT !.pc = "done"])

\* Store.recipe_get
recipe_get(d, l) ==
    LET recipe == l.arg
    IN  CASE l.pc = "start" ->
               LET rid == uget(d, EntityKey("recipe", recipe.name))
               IN  IF ~Truthy(rid) THEN Raise(d, l, "NoRecipeError")
                   ELSE Out(d, [l EXCEPT !.rid = rid, !.pc = "L214"])
          [] l.pc = "L214" ->
               Out(d, [l EXCEPT !.ret = uget(d, AttrKey("rid", l.rid, "desc")),
                                !.retpc = "L217", !.pc = "G409"])
          [] l.pc = "L217" ->
               LET recipe_list == lrange(d, AttrKey("rid", l.rid, "rlist"))
               IN  IF \E i \in 1..Len(recipe_list) : Len(Split(recipe_list[i])) # 2
                   THEN Raise(d, l, "ValueError")
                   ELSE Out(d, [l EXCEPT !.acc = [i \in 1..Len(recipe_list) |->
                                                     Split(recipe_list[i])],
                                         !.pc = "done"])

\* Store.recipe_put
recipe_put(d, l) ==
    LET recipe == l.arg
    IN  CASE l.pc = "start" ->
               LET rid == uget(d, EntityKey("recipe", recipe.name))
               IN  Out(d, [l EXCEPT !.rid = rid,
                                    !.pc = IF ~Truthy(rid) THEN "L231" ELSE "L234"])
          [] l.pc = "L231" ->
               LET r == Incr(d, CounterKey("Recipe"))
               IN  Out(r.db, [l EXCEPT !.rid = IntStr(r.val), !.pc = "L232"])
          [] l.pc = "L232" ->
               Out(Set(d, EntityKey("recipe", recipe.name), l.rid),
                   [l EXCEPT !.pc = "L234"])
          [] l.pc = "L234" ->
               Out(Set(d, AttrKey("rid", l.rid, "name"), recipe.name),
                   [l EXCEPT !.pc = "L235"])
          [] l.pc = "L235" ->
               Out(Set(d, AttrKey("rid", l.rid, "desc"), recipe.desc),
                   [l EXCEPT !.pc = "L237"])
          [] l.pc = "L237" ->
               Out(d, enter_set_policy(l, uget(d, AttrKey("rid", l.rid, "policy")),
                                       "L239"))
          [] l.pc = "L239" ->
               LET items == recipe.recipe
               IN  Out(Set(d, AttrKey("rid", l.rid, "policy"), l.pid),
                       [l EXCEPT !.todo = items,
                                 !.pc = IF items = <<>> THEN "L245" ELSE "L242"])
          [] l.pc = "L242" ->
               LET item == Head(l.todo)
                   rest == Tail(l.todo)
               IN  Out(Rpush(d, AttrKey("rid", l.rid, "rlist"),
                             JoinRecipeItem(item[1], item[2])),
                       [l EXCEPT !.todo = rest,
                                 !.pc = IF rest = <<>> THEN "L245" ELSE "L242"])
          [] l.pc = "L245" ->
               Out(Sadd(d, <<"recipes">>, l.rid), [l EXCEPT !.pc = "done"])

\* Store.list_recipes
list_recipes(d, l) ==
    CASE l.pc = "start" ->
           {[db |-> d, l |-> [l EXCEPT !.todo = rids,
                                       !.pc = IF rids = <<>> THEN "done" ELSE "L365"]] :
               rids \in Orders(smembers(d, <<"recipes">>))}
      [] l.pc = "L365" ->
           LET name == uget(d, AttrKey("rid", Head(l.todo), "name"))
               rest == Tail(l.todo)
           IN  Out(d, [l EXCEPT !.acc = Append(@, name), !.todo = rest,
                                !.pc = IF rest = <<>> THEN "done" ELSE "L365"])

---------------------------------------------------------------------------
(* Users. *)

user_delete_keeps_pointer(d, l) ==
    LET user == l.arg
    IN  CASE l.pc = "start" ->
               LET uid == uget(d, EntityKey("user", user.usersign))
               IN  IF ~Truthy(uid) THEN Raise(d, l, "NoUserError")
                   ELSE Out(d, [l EXCEPT !.uid = uid, !.pc = "L326"])
          [] l.pc = "L326" ->
               Out(Delete(d, {AttrKey("uid", l.uid, key_name) :
                                 key_name \in {"usersign", "password", "roles"}}),
                   [l EXCEPT !.pc = "L328"])
          [] l.pc = "L328" ->
               Out(Srem(d, <<"users">>, l.uid), [l EXCEPT !.pc = "done"])

user_delete_keeps_member(d, l) ==
    LET user == l.arg
    IN  CASE l.pc = "start" ->
               LET uid == uget(d, EntityKey("user", user.usersign))
               IN  IF ~Truthy(uid) THEN Raise(d, l, "NoUserError")
                   ELSE Out(d, [l EXCEPT !.uid = uid, !.pc = "L326"])
          [] l.pc = "L326" ->
               Out(Delete(d, {AttrKey("uid", l.uid, key_name) :
                                 key_name \in {"usersign", "password", "roles"}}
                             \cup {EntityKey("user", user.usersign)}),
                   [l EXCEPT !.pc = "done"])

\* Store.user_delete
user_delete(d, l) ==
    LET user == l.arg
    IN  CASE l.pc = "start" ->
               LET uid == uget(d, EntityKey("user", user.usersign))
               IN  IF ~Truthy(uid) THEN Raise(d, l, "NoUserError")
                   ELSE Out(d, [l EXCEPT !.uid = uid, !.pc = "L326"])
          [] l.pc = "L326" ->
               Out(Delete(d, {AttrKey("uid", l.uid, key_name) :
                                 key_name \in {"usersign", "password", "roles"}}
                             \cup {EntityKey("user", user.usersign)}),
                   [l EXCEPT !.pc = "L328"])
          [] l.pc = "L328" ->
               Out(Srem(d, <<"users">>, l.uid), [l EXCEPT !.pc = "done"])

\* the attributes of a user that user_get fills
EmptyUser == [password |-> None, note |-> None, roles |-> {}]

\* Store.user_get
user_get(d, l) ==
    LET user == l.arg
    IN  CASE l.pc = "start" ->
               LET uid == uget(d, EntityKey("user", user.usersign))
               IN  IF ~Truthy(uid) THEN Raise(d, l, "NoUserError")
                   ELSE Out(d, [l EXCEPT !.uid = uid, !.ret = EmptyUser, !.pc = "L335"])
          [] l.pc = "L335" ->
               Out(d, [l EXCEPT !.ret.password = uget(d, AttrKey("uid", l.uid, "password")),
                                !.pc = "L336"])
          [] l.pc = "L336" ->
               Out(d, [l EXCEPT !.ret.note = uget(d, AttrKey("uid", l.uid, "note")),
                                !.pc = "L337"])
          [] l.pc = "L337" ->
               Out(d, [l EXCEPT !.ret.roles = smembers(d, AttrKey("uid", l.uid, "roles")),
                                !.pc = "done"])

\* Store.user_put
user_put(d, l) ==
    LET user == l.arg
    IN  CASE l.pc = "start" ->
               LET uid == uget(d, EntityKey("user", user.usersign))
               IN  Out(d, [l EXCEPT !.uid = uid,
                                    !.pc = IF ~Truthy(uid) THEN "L343" ELSE "L346"])
          [] l.pc = "L343" ->
               LET r == Incr(d, CounterKey("User"))
               IN  Out(r.db, [l EXCEPT !.uid = IntStr(r.val), !.pc = "L344"])
          [] l.pc = "L344" ->
               Out(Set(d, EntityKey("user", user.usersign), l.uid),
                   [l EXCEPT !.pc = "L346"])
          [] l.pc = "L346" ->
               Out(Set(d, AttrKey("uid", l.uid, "usersign"), user.usersign),
                   [l EXCEPT !.pc = "L347"])
          [] l.pc = "L347" ->
               Out(Set(d, AttrKey("uid", l.uid, "password"), user.password),
                   [l EXCEPT !.pc = "L348"])
          [] l.pc = "L348" ->
               Out(Set(d, AttrKey("uid", l.uid, "note"), user.note),
                   [l EXCEPT !.pc = "L350"])
          [] l.pc = "L350" ->
               Out(Delete(d, {AttrKey("uid", l.uid, "roles")}),
                   [l EXCEPT !.members = user.roles,
                             !.pc = IF user.roles = <<>> THEN "L354" ELSE "L352"])
          [] l.pc = "L352" ->
               LET rest == Tail(l.members)
               IN  Out(Sadd(d, AttrKey("uid", l.uid, "roles"), Head(l.members)),
                       [l EXCEPT !.members = rest,
                                 !.pc = IF rest = <<>> THEN "L354" ELSE "L352"])
          [] l.pc = "L354" ->
               Out(Sadd(d, <<"users">>, l.uid), [l EXCEPT !.pc = "done"])

\* Store.list_users
list_users(d, l) ==
    CASE l.pc = "start" ->
           {[db |-> d, l |-> [l EXCEPT !.todo = uids,
                                       !.pc = IF uids = <<>> THEN "done" ELSE "L371"]] :
               uids \in Orders(smembers(d, <<"users">>))}
      [] l.pc = "L371" ->
           LET name == uget(d, AttrKey("uid", Head(l.todo), "usersign"))
               rest == Tail(l.todo)
           IN  Out(d, [l EXCEPT !.acc = Append(@, name), !.todo = rest,
                                !.pc = IF rest = <<>> THEN "done" ELSE "L371"])

---------------------------------------------------------------------------
(* One step of a call, and a call run from its start to its end.           *)

HelperPcs ==
    [set_policy |-> {"P448", "P452", "P457", "P459"},
     get_policy |-> {"G409", "G415", "G420"},
     delete_policy |-> {"Q406"},
     tiddler_delete |-> {"L248", "L252", "L257", "L267", "L269", "L270"},
     delete_bag_tiddlers |-> {"L397", "L399"},
     new_revision |-> {"N430", "N431", "N432", "N433", "N434", "N435", "N437", "N443"}]

\* the results of the next step of the call l
Step(d, l) ==
    CASE l.pc \in HelperPcs.set_policy -> set_policy(d, l)
      [] l.pc \in HelperPcs.get_policy -> get_policy(d, l)
      [] l.pc \in HelperPcs.delete_policy -> delete_policy(d, l)
      [] l.pc \in HelperPcs.tiddler_delete -> tiddler_delete(d, l)
      [] l.pc \in HelperPcs.delete_bag_tiddlers -> delete_bag_tiddlers(d, l)
      [] l.pc \in HelperPcs.new_revision -> new_revision(d, l)
      [] OTHER ->
           CASE l.op = "bag_delete" -> bag_delete(d, l)
             [] l.op = "bag_get" -> bag_get(d, l)
             [] l.op = "bag_put" -> bag_put(d, l)
             [] l.op = "list_bags" -> list_bags(d, l)
             [] l.op = "list_bag_tiddlers" -> list_bag_tiddlers(d, l)
             [] l.op = "tiddler_delete" ->
                  tiddler_delete(d, [l EXCEPT !.pc = "L248", !.retpc = "done",
                                              !.tiddler = [bag |-> l.arg.bag,
                                                           title |-> l.arg.title]])
             [] l.op = "tiddler_get" -> tiddler_get(d, l)
             [] l.op = "tiddler_put" -> tiddler_put(d, l)
             [] l.op = "list_tiddler_revisions" -> list_tiddler_revisions(d, l)
             [] l.op = "recipe_delete" -> recipe_delete(d, l)
             [] l.op = "recipe_get" -> recipe_get(d, l)
             [] l.op = "recipe_put" -> recipe_put(d, l)
             [] l.op = "list_recipes" -> list_recipes(d, l)
             [] l.op = "user_delete" -> user_delete(d, l)
             [] l.op = "user_get" -> user_get(d, l)
             [] l.op = "user_put" -> user_put(d, l)
             [] l.op = "list_users" -> list_users(d, l)

\* the results of running the calls of S to their ends, nothing interleaved
RECURSIVE Finish(_)
Finish(S) ==
    IF \A s \in S : Done(s.l) THEN S
    ELSE Finish(UNION {IF Done(s.l) THEN {s} ELSE Step(s.db, s.l) : s \in S})

\* the results of the call of op with arg on the database d
Run(d, op, arg) == Finish(Out(d, NewCall(op, arg)))

---------------------------------------------------------------------------
(* The inputs of the calls. *)

BagNames == {<<"a">>, <<"b">>}
RecipeNames == {<<"r">>, <<"s">>}
UserNames == {<<"c", "d", "e", "n", "t">>, <<"F", "N", "D">>}
Titles == {<<"m">>, <<"n">>}
Descs == {<<>>, <<"d">>}

Policy(manage, accept, create, read, write, owner) ==
    [manage |-> manage, accept |-> accept, create |-> create, read |-> read,
     write |-> write, owner |-> owner]

\* policies as the callers build them: lists of principals and an owner
Policies ==
    {Policy(<<>>, <<>>, <<>>, <<>>, <<>>, None),
     Policy(<<>>, <<<<"cdent">>>>, <<>>, <<>>, <<>>, None),
     Policy(<<<<"R:ADMIN">>>>, <<<<"fnd">>, <<"cdent">>>>, <<>>, <<<<"fnd">>>>, <<>>,
            <<"cdent">>)}

Bags == [name : BagNames, desc : Descs, policy : Policies]

\* the principal sets and the owner that a policy holds
PolicyValue(policy) ==
    [manage |-> SeqToSet(policy.manage), accept |-> SeqToSet(policy.accept),
     create |-> SeqToSet(policy.create), read |-> SeqToSet(policy.read),
     write |-> SeqToSet(policy.write), owner |-> policy.owner]

\* the threads that construct a Store each
MaxThreads == 3
Threads == 1..MaxThreads

\* the k-th URedis object constructed in the process
URedis(k) == <<"URedis">> \o IntStr(k)

\* the process once a Store has been constructed by one thread alone: the
\* client exists and every Store holds it
ProcessUp ==
    /\ R = URedis(1)
    /\ constructed = 1
    /\ threads = [t \in Threads |-> [pc |-> "done", client |-> None, redis |-> URedis(1)]]

---------------------------------------------------------------------------
(* The sequential specifications: every call runs to its end before the    *)
(* next one starts.                                                        *)

Counters == {"Recipe", "Bag", "User", "Tiddler", "Revision", "Policy"}

\* gone: the entities deleted at least once, as <<type, name>> and
\* <<"tiddler", bag, title>>
NoneLive ==
    [bag |-> <<>>, recipe |-> <<>>, user |-> <<>>, tiddler |-> <<>>, gone |-> {}]

Init ==
    /\ db = EmptyDb
    /\ last = Idle
    /\ before = EmptyDb
    /\ live = NoneLive
    /\ issued = [e \in Counters |-> <<>>]
    /\ cl = <<Idle, Idle>>
    /\ calls = <<0, 0>>
    /\ broken = {}
    /\ workload = "sequential"
    /\ ProcessUp

\* the counters named can be incremented within the bound
Room(d, entities) == \A e \in entities : Counter(d, CounterKey(e)) < MaxId

\* live after the call l has completed
Track(lv, l) ==
    CASE l.op = "bag_put" /\ l.exc = "" -> [lv EXCEPT !.bag = Put(@, l.arg.name, l.arg)]
      [] l.op = "bag_delete" /\ l.exc = "" ->
           [lv EXCEPT !.bag = Drop(@, {l.arg.name}),
                      !.tiddler = Drop(@, {k \in DOMAIN @ : k[1] = l.arg.name}),
                      !.gone = @ \cup {<<"bag", l.arg.name>>}
                                 \cup {<<"tiddler", k[1], k[2]>> :
                                          k \in {x \in DOMAIN lv.tiddler :
                                                    x[1] = l.arg.name}}]
      [] l.op = "recipe_put" /\ l.exc = "" ->
           [lv EXCEPT !.recipe = Put(@, l.arg.name, l.arg)]
      [] l.op = "recipe_delete" /\ l.exc = "" ->
           [lv EXCEPT !.recipe = Drop(@, {l.arg.name}),
                      !.gone = @ \cup {<<"recipe", l.arg.name>>}]
      [] l.op = "user_put" /\ l.exc = "" ->
           [lv EXCEPT !.user = Put(@, l.arg.usersign, l.arg)]
      [] l.op = "user_delete" /\ l.exc = "" ->
           [lv EXCEPT !.user = Drop(@, {l.arg.usersign}),
                      !.gone = @ \cup {<<"user", l.arg.usersign>>}]
      [] l.op = "tiddler_put" /\ l.exc = "" ->
           LET k == <<l.arg.bag, l.arg.title>>
               sofar == IF k \in DOMAIN lv.tiddler THEN lv.tiddler[k].revisions ELSE <<>>
           IN  [lv EXCEPT !.tiddler =
                   Put(@, k, [tiddler |-> l.arg,
                              first |-> IF k \in DOMAIN lv.tiddler
                                        THEN lv.tiddler[k].first ELSE l.arg,
                              revisions |-> Append(sofar, StrInt(l.rvid))])]
      [] l.op = "tiddler_delete" /\ l.exc = "" ->
           [lv EXCEPT !.tiddler = Drop(@, {<<l.arg.bag, l.arg.title>>}),
                      !.gone = @ \cup {<<"tiddler", l.arg.bag, l.arg.title>>}]
      [] OTHER -> lv

\* one call, from its start to its end
Call(op, arg) ==
    \E out \in Run(db, op, arg) :
        /\ db' = out.db
        /\ last' = out.l
        /\ before' = db
        /\ live' = Track(live, out.l)
        /\ UNCHANGED <<issued, cl, calls, broken, workload, process>>

BagPut(bag) == Room(db, {"Bag", "Policy"}) /\ Call("bag_put", bag)
BagGet(name) == name \in BagNames /\ Call("bag_get", [name |-> name])
BagDelete(name) == name \in BagNames /\ Call("bag_delete", [name |-> name])
ListBags == last \in {last} /\ Call("list_bags", None)

NextBag ==
    \/ \E bag \in Bags : BagPut(bag)
    \/ \E name \in BagNames : BagGet(name)
    \/ \E name \in BagNames : BagDelete(name)
    \/ ListBags

\* the bag handlers alone
SpecBag == Init /\ [][NextBag]_vars

Tiddler(bag, title, text, tags, fields, modifier, modified, type, revision) ==
    [bag |-> bag, title |-> title, text |-> text, tags |-> tags, fields |-> fields,
     modifier |-> modifier, modified |-> modified, type |-> type,
     revision |-> revision]

\* a tiddler to look up: Tiddler(title, bag), with a revision or None
TiddlerRef(bag, title, revision) ==
    Tiddler(bag, title, None, <<>>, <<>>, None, None, None, revision)

\* the contents put into tiddlers
Contents ==
    {Tiddler(None, None, <<"cow">>, <<<<"tagone">>, <<"tagtwo">>>>,
             [f \in {<<"field key one">>} |-> <<"fieldvalueone">>],
             <<"cdent">>, <<"20080202111111">>, None, None),
     Tiddler(None, None, <<"pig">>, <<>>, <<>>,
             <<"fnd">>, <<"20090303">>, None, None)}

Tiddlers ==
    {[c EXCEPT !.bag = bag, !.title = title] :
        c \in Contents, bag \in BagNames, title \in Titles}

\* the tiddlers of the specification of bags and tiddlers: the first title
\* with tags and fields, the second without
PlainTiddlers ==
    {t \in Tiddlers : t.bag = <<"a">> /\ (t.title = <<"m">>) = (t.tags # <<>>)}

\* the bag of the specification of bags and tiddlers
PlainBags == {b \in Bags : b.name = <<"a">> /\ b.desc = <<>> /\ b.policy.accept = <<>>}

TiddlerPut(tiddler) ==
    Room(db, {"Tiddler", "Revision"}) /\ Call("tiddler_put", tiddler)
TiddlerGet(ref) == ref.text = None /\ Call("tiddler_get", ref)
TiddlerDelete(ref) == ref.text = None /\ Call("tiddler_delete", ref)
ListTiddlerRevisions(ref) == ref.text = None /\ Call("list_tiddler_revisions", ref)
ListBagTiddlers(name) ==
    name \in BagNames /\ Call("list_bag_tiddlers", [name |-> name])

Refs == {TiddlerRef(<<"a">>, title, None) : title \in Titles}

NextTiddler ==
    \/ \E bag \in PlainBags : BagPut(bag)
    \/ BagDelete(<<"a">>)
    \/ \E tiddler \in PlainTiddlers : TiddlerPut(tiddler)
    \/ \E ref \in Refs : TiddlerGet(ref)
    \/ \E ref \in Refs : TiddlerDelete(ref)
    \/ \E ref \in Refs : ListTiddlerRevisions(ref)
    \/ ListBagTiddlers(<<"a">>)

\* bags and their tiddlers
SpecTiddler == Init /\ [][NextTiddler]_vars

\* recipes as the callers build them: the (bag, filter) pairs in order
RecipeLists ==
    {<<>>,
     <<<<<<"beta">>, <<>>>>>>,
     <<<<<<"alpha">>, <<"select=tag:systemConfig">>>>, <<<<"beta">>, <<>>>>>>}

Recipes == [name : RecipeNames, desc : Descs, policy : Policies, recipe : RecipeLists]

\* the length of the list stored for the recipe name, 0 when there is none
Rlist(d, name) ==
    Len(lrange(d, AttrKey("rid", uget(d, EntityKey("recipe", name)), "rlist")))

RecipePut(recipe) ==
    /\ Room(db, {"Recipe", "Policy"})
    /\ Rlist(db, recipe.name) + Len(recipe.recipe) <= MaxRlist
    /\ Call("recipe_put", recipe)
RecipeGet(name) == name \in RecipeNames /\ Call("recipe_get", [name |-> name])
RecipeDelete(name) == name \in RecipeNames /\ Call("recipe_delete", [name |-> name])
ListRecipes == last \in {last} /\ Call("list_recipes", None)

\* the recipes of the specification of recipes
PlainRecipes == {r \in Recipes : r.desc = <<>> /\ r.policy.accept = <<>>}

NextRecipe ==
    \/ \E recipe \in PlainRecipes : RecipePut(recipe)
    \/ \E name \in RecipeNames : RecipeGet(name)
    \/ \E name \in RecipeNames : RecipeDelete(name)
    \/ ListRecipes

\* the recipe handlers alone
SpecRecipe == Init /\ [][NextRecipe]_vars

User(usersign, password, note, roles) ==
    [usersign |-> usersign, password |-> password, note |-> note, roles |-> roles]

\* users as the callers build them, the password as set_password hashed it
Users ==
    {User(usersign, <<"sha1:foobar">>, <<"A simple programmer of matter">>,
          <<<<"ADMIN">>>>) : usersign \in UserNames}
    \cup {User(usersign, <<"sha1:I<3whitespace">>, <<>>, <<>>) : usersign \in UserNames}

UserPut(user) == Room(db, {"User"}) /\ Call("user_put", user)
UserGet(usersign) ==
    usersign \in UserNames /\ Call("user_get", [usersign |-> usersign])
UserDelete(usersign) ==
    usersign \in UserNames /\ Call("user_delete", [usersign |-> usersign])
ListUsers == last \in {last} /\ Call("list_users", None)

\* the entities created so far are fewer than MaxEntities
Budget(d) ==
    Counter(d, CounterKey("Bag")) + Counter(d, CounterKey("Recipe"))
        + Counter(d, CounterKey("User")) + Counter(d, CounterKey("Tiddler"))
    < MaxEntities

\* the inputs of the specification of all types
SomeBags == {b \in Bags : b.desc = <<"d">> /\ Len(b.policy.accept) = 1}
SomeRecipes ==
    {r \in Recipes : r.desc = <<"d">> /\ Len(r.policy.accept) = 2 /\ Len(r.recipe) = 1}
SomeUsers == {u \in Users : (u.usersign = <<"F", "N", "D">>) = (u.roles = <<>>)}
SomeTiddlers == {t \in PlainTiddlers : t.title = <<"m">>}
SomeRefs == {r \in Refs : r.title = <<"m">>}

\* the inputs of the specification of the policies of bags and recipes
PolicyBags == {b \in Bags : b.name = <<"a">> /\ b.desc = <<"d">>}
PolicyRecipes ==
    {r \in Recipes : r.name = <<"r">> /\ r.desc = <<"d">> /\ Len(r.recipe) = 1}

NextPolicy ==
    \/ \E bag \in PolicyBags : BagPut(bag)
    \/ BagGet(<<"a">>)
    \/ BagDelete(<<"a">>)
    \/ \E recipe \in PolicyRecipes : RecipePut(recipe)
    \/ RecipeGet(<<"r">>)
    \/ RecipeDelete(<<"r">>)

\* one bag and one recipe, their policies replaced
SpecPolicy == Init /\ [][NextPolicy]_vars

Next ==
    \/ \E bag \in SomeBags : Budget(db) /\ BagPut(bag)
    \/ \E name \in BagNames : BagGet(name)
    \/ \E name \in BagNames : BagDelete(name)
    \/ ListBags
    \/ \E recipe \in SomeRecipes : Budget(db) /\ RecipePut(recipe)
    \/ \E name \in RecipeNames : RecipeGet(name)
    \/ \E name \in RecipeNames : RecipeDelete(name)
    \/ ListRecipes
    \/ \E user \in SomeUsers : Budget(db) /\ UserPut(user)
    \/ \E usersign \in UserNames : UserGet(usersign)
    \/ \E usersign \in UserNames : UserDelete(usersign)
    \/ ListUsers
    \/ \E tiddler \in SomeTiddlers : Budget(db) /\ TiddlerPut(tiddler)
    \/ \E ref \in SomeRefs : TiddlerGet(ref)
    \/ \E ref \in SomeRefs : TiddlerDelete(ref)
    \/ \E ref \in SomeRefs : ListTiddlerRevisions(ref)
    \/ ListBagTiddlers(<<"a">>)

\* every handler, on entities of all types
Spec == Init /\ [][Next]_vars

---------------------------------------------------------------------------
(* The concurrent specification: two clients, each in a call of its own,   *)
(* take turns of one redis command each.                                   *)

Clients == {1, 2}

AllIdle == \A c \in Clients : cl[c] = Idle

\* the bag that exists when the clients work on its tiddlers
TheBag == CHOOSE b \in PlainBags : TRUE

\* the calls that the clients make, per workload
ConcCalls(w) ==
    CASE w = "bag" ->
           {<<"bag_put", b>> : b \in {x \in SomeBags : x.name = <<"a">>}}
           \cup {<<"bag_delete", [name |-> <<"a">>]>>}
      [] w = "recipe" ->
           {<<"recipe_put", r>> : r \in {x \in SomeRecipes : x.name = <<"r">>}}
           \cup {<<"recipe_delete", [name |-> <<"r">>]>>}
      [] w = "user" ->
           {<<"user_put", u>> : u \in {x \in SomeUsers : x.roles # <<>>}}
           \cup {<<"user_delete", [usersign |-> u.usersign]>> :
                    u \in {x \in SomeUsers : x.roles # <<>>}}
      [] w = "tiddler" ->
           {<<"tiddler_put", t>> : t \in SomeTiddlers}
           \cup {<<"tiddler_delete", r>> : r \in SomeRefs}

\* the counters that a call may increment
MayIncr(op) ==
    CASE op = "bag_put" -> {"Bag", "Policy"}
      [] op = "recipe_put" -> {"Recipe", "Policy"}
      [] op = "user_put" -> {"User"}
      [] op = "tiddler_put" -> {"Tiddler", "Revision"}
      [] OTHER -> {}

\* the counter that the step at pc increments, and the local that gets the id
IncrAt ==
    [L181 |-> <<"Bag", "bid">>, L231 |-> <<"Recipe", "rid">>,
     L306 |-> <<"Tiddler", "tid">>, L343 |-> <<"User", "uid">>,
     N430 |-> <<"Revision", "rvid">>, P448 |-> <<"Policy", "pid">>]

\* issued after the step that took the call from l to m
Issue(is, l, m) ==
    IF l.pc \in DOMAIN IncrAt
    THEN LET at == IncrAt[l.pc]
         IN  [is EXCEPT ![at[1]] = Append(@, StrInt(m[at[2]]))]
    ELSE is

InitConc ==
    /\ workload \in {"bag", "recipe", "user", "tiddler"}
    /\ db \in {out.db : out \in IF workload = "tiddler"
                                THEN Run(EmptyDb, "bag_put", TheBag)
                                ELSE Out(EmptyDb, Idle)}
    /\ last = Idle
    /\ before = EmptyDb
    /\ live = NoneLive
    /\ issued = [e \in Counters |-> IF e \in {"Bag", "Policy"} /\ workload = "tiddler"
                                    THEN <<1>> ELSE <<>>]
    /\ cl = <<Idle, Idle>>
    /\ calls = <<0, 0>>
    /\ broken = {}
    /\ ProcessUp

\* a client starts a call; a call that may increment a counter starts only
\* when the counter has room for it and for the calls in progress
Start(c, call) ==
    /\ cl[c] = Idle
    /\ calls[1] + calls[2] < MaxCalls
    /\ \A e \in MayIncr(call[1]) :
           Counter(db, CounterKey(e))
               + Cardinality({o \in Clients : e \in MayIncr(cl[o].op)}) < MaxId
    /\ cl' = [cl EXCEPT ![c] = NewCall(call[1], call[2])]
    /\ calls' = [calls EXCEPT ![c] = @ + 1]
    /\ UNCHANGED <<db, last, before, live, issued, broken, workload, process>>

\* a client executes the next redis command of its call; the call that
\* ends leaves the client idle
Command(c) ==
    /\ cl[c] # Idle
    /\ \E out \in Step(db, cl[c]) :
           /\ db' = out.db
           /\ cl' = [cl EXCEPT ![c] = IF Done(out.l) THEN Idle ELSE out.l]
           /\ issued' = Issue(issued, cl[c], out.l)
    /\ UNCHANGED <<last, before, live, calls, broken, workload, process>>

NextConc ==
    \/ \E c \in Clients : \E call \in ConcCalls(workload) : Start(c, call)
    \/ \E c \in Clients : Command(c)

SpecConc == InitConc /\ [][NextConc]_vars

---------------------------------------------------------------------------
(* The specification of the interrupted bag_delete: one client puts bags   *)
(* and tiddlers, and deletes a bag one redis command at a time; the        *)
(* process may die between two commands of the delete, and the delete is   *)
(* then called again.                                                      *)

RetryBags == {b \in SomeBags : b.name = <<"a">>}

\* nothing was interrupted: the client is between calls
Quiet == cl[1] = Idle /\ broken = {}

\* bag_delete is called; after an interruption it is called for the same name
StartDelete(name) ==
    /\ cl[1] = Idle
    /\ \/ broken = {}
       \/ last = Idle /\ \E b \in broken : b.name = name
    /\ cl' = [cl EXCEPT ![1] = NewCall("bag_delete", [name |-> name])]
    /\ before' = IF broken = {} THEN db ELSE before
    /\ UNCHANGED <<db, last, live, issued, calls, broken, workload, process>>

\* the next redis command of the bag_delete in progress
DeleteCommand ==
    /\ cl[1] # Idle
    /\ \E out \in Step(db, cl[1]) :
           /\ db' = out.db
           /\ cl' = [cl EXCEPT ![1] = IF Done(out.l) THEN Idle ELSE out.l]
           /\ last' = IF Done(out.l) THEN out.l ELSE last
    /\ UNCHANGED <<before, live, issued, calls, broken, workload, process>>

\* the process dies after a command of bag_delete: the locals are lost, the
\* database stays as it is
Interrupt ==
    /\ cl[1] # Idle
    /\ cl[1].pc # "start"
    /\ broken = {}
    /\ broken' = {[name |-> cl[1].arg.name, bid |-> cl[1].bid,
                   pid |-> uget(db, AttrKey("bid", cl[1].bid, "policy"))]}
    /\ cl' = [cl EXCEPT ![1] = Idle]
    /\ last' = Idle
    /\ UNCHANGED <<db, before, live, issued, calls, workload, process>>

NextRetry ==
    \/ Quiet /\ \E bag \in RetryBags : BagPut(bag)
    \/ Quiet /\ \E tiddler \in PlainTiddlers : TiddlerPut(tiddler)
    \/ \E bag \in RetryBags : StartDelete(bag.name)
    \/ DeleteCommand
    \/ Interrupt

SpecRetry == Init /\ [][NextRetry]_vars

---------------------------------------------------------------------------
(* The specification of the construction of the Store objects: the threads *)
(* of one process construct a Store each; a thread may be preempted        *)
(* between any two statements of Store.__init__.                           *)

\* the process before any Store is constructed: R = None
InitProcess ==
    /\ db = EmptyDb
    /\ last = Idle
    /\ before = EmptyDb
    /\ live = NoneLive
    /\ issued = [e \in Counters |-> <<>>]
    /\ cl = <<Idle, Idle>>
    /\ calls = <<0, 0>>
    /\ broken = {}
    /\ workload = "sequential"
    /\ R = None
    /\ constructed = 0
    /\ threads = [t \in Threads |-> [pc |-> "L143", client |-> None, redis |-> None]]

\* the variables that the construction of a Store leaves alone
store == <<db, last, before, live, issued, cl, calls, broken, workload>>

\* global R; super(Store, self).__init__(store_config, environ)
Enter(t) ==
    /\ threads[t].pc = "L143"
    /\ threads' = [threads EXCEPT ![t].pc = "L145"]
    /\ UNCHANGED <<R, constructed, store>>

\* if not R:
TestR(t) ==
    /\ threads[t].pc = "L145"
    /\ threads' = [threads EXCEPT ![t].pc = IF ~Truthy(R) THEN "L146" ELSE "L147"]
    /\ UNCHANGED <<R, constructed, store>>

\* URedis(**store_config): the right-hand side of line 146
Construct(t) ==
    /\ threads[t].pc = "L146"
    /\ constructed' = constructed + 1
    /\ threads' = [threads EXCEPT ![t].pc = "L146store",
                                  ![t].client = URedis(constructed + 1)]
    /\ UNCHANGED <<R, store>>

\* R = ...: the assignment of line 146
StoreR(t) ==
    /\ threads[t].pc = "L146store"
    /\ R' = threads[t].client
    /\ threads' = [threads EXCEPT ![t].pc = "L147"]
    /\ UNCHANGED <<constructed, store>>

\* self.redis = R
SetRedis(t) ==
    /\ threads[t].pc = "L147"
    /\ threads' = [threads EXCEPT ![t].pc = "done", ![t].redis = R]
    /\ UNCHANGED <<R, constructed, store>>

NextInit ==
    \/ \E t \in Threads : Enter(t)
    \/ \E t \in Threads : TestR(t)
    \/ \E t \in Threads : Construct(t)
    \/ \E t \in Threads : StoreR(t)
    \/ \E t \in Threads : SetRedis(t)

SpecInit == InitProcess /\ [][NextInit]_vars

---------------------------------------------------------------------------
(* The specification of the users: complete calls of the user methods, one *)
(* after another.                                                          *)

\* the users that the callers put: with a note and a role, with neither (the
\* note of a User is None until it is assigned), and with two roles
PutUsers ==
    {User(usersign, <<"sha1:foobar">>, <<"A simple programmer of matter">>,
          <<<<"ADMIN">>>>) : usersign \in UserNames}
    \cup {User(usersign, <<"sha1:I<3whitespace">>, None, <<>>) : usersign \in UserNames}
    \cup {User(usersign, <<"sha1:foobar">>, <<>>, <<<<"EDITOR">>, <<"ADMIN">>>>) :
             usersign \in UserNames}

NextUser ==
    \/ \E user \in PutUsers : UserPut(user)
    \/ \E usersign \in UserNames : UserGet(usersign)
    \/ \E usersign \in UserNames : UserDelete(usersign)
    \/ ListUsers

SpecUser == Init /\ [][NextUser]_vars

---------------------------------------------------------------------------
(* The specification of the contents of a tiddler: one bag, one title, and *)
(* tiddlers of every shape put into it.                                    *)

\* the contents put: with tags and a field; plain; with empty strings for
\* text, modifier and modified; with a reserved field next to a field of the
\* caller; with reserved fields only
PutContents ==
    Contents
    \cup {Tiddler(None, None, <<>>, <<>>, <<>>, <<>>, <<>>, None, None),
          Tiddler(None, None, <<"cow">>, <<<<"tagone">>>>,
                  [f \in {<<"server.", "etag">>, <<"field key one">>} |->
                      <<"fieldvalueone">>],
                  <<"cdent">>, <<"20080202111111">>, None, None),
          Tiddler(None, None, <<"pig">>, <<>>,
                  [f \in {<<"server.", "etag">>} |-> <<"abc">>],
                  <<"fnd">>, <<"20090303">>, None, None)}

ContentTiddlers == {[c EXCEPT !.bag = <<"a">>, !.title = <<"m">>] : c \in PutContents}

TheRef == TiddlerRef(<<"a">>, <<"m">>, None)

NextContent ==
    \/ \E bag \in PlainBags : BagPut(bag)
    \/ \E tiddler \in ContentTiddlers : TiddlerPut(tiddler)
    \/ TiddlerGet(TheRef)
    \/ TiddlerDelete(TheRef)

SpecContent == Init /\ [][NextContent]_vars

---------------------------------------------------------------------------
(* The specification of the tiddlers of two bags: the bags are put, and    *)
(* tiddlers are put into them, deleted from them and listed.               *)

ListedBags == {b \in Bags : b.desc = <<>> /\ b.policy.accept = <<>>}

\* in each bag, the first title with tags and fields, the second without
ListedTiddlers == {t \in Tiddlers : (t.title = <<"m">>) = (t.tags # <<>>)}

ListedRefs == {TiddlerRef(bag, title, None) : bag \in BagNames, title \in Titles}

NextList ==
    \/ \E bag \in ListedBags : BagPut(bag)
    \/ \E tiddler \in ListedTiddlers : TiddlerPut(tiddler)
    \/ \E ref \in ListedRefs : TiddlerDelete(ref)
    \/ \E name \in BagNames : ListBagTiddlers(name)

SpecList == Init /\ [][NextList]_vars

---------------------------------------------------------------------------
(* The specification of the revisions: one bag, two titles, tiddlers put   *)
(* several times, and read with and without a revision id.                 *)

\* the contents put: the two of the callers above, and one without a
\* modifier (the modifier of a Tiddler is None until it is assigned)
RevisionContents ==
    {c \in Contents : c.tags = <<>>}
    \cup {Tiddler(None, None, <<"cow">>, <<>>, <<>>, <<"cdent">>, <<"20080202111111">>,
                  None, None),
          Tiddler(None, None, <<"alpha cow">>, <<>>, <<>>, None, <<"20100404">>,
                  None, None)}

\* every title is put with two of the contents; the second title with the
\* one without a modifier
RevisionTiddlers ==
    {t \in {[c EXCEPT !.bag = <<"a">>, !.title = title] :
                c \in RevisionContents, title \in Titles} :
        (t.title = <<"m">>) = (t.modifier # None) \/ t.modifier = <<"fnd">>}

\* the revision requested: none, one that may have been allocated, or one
\* that never is
RevisionRefs ==
    {TiddlerRef(<<"a">>, title, revision) :
        title \in Titles,
        revision \in {None} \cup {IntStr(i) : i \in 1..(MaxId + 1)}}

NextRevision ==
    \/ \E bag \in PlainBags : BagPut(bag)
    \/ \E tiddler \in RevisionTiddlers : TiddlerPut(tiddler)
    \/ \E ref \in RevisionRefs : TiddlerGet(ref)
    \/ \E ref \in Refs : TiddlerDelete(ref)

SpecRevision == Init /\ [][NextRevision]_vars

---------------------------------------------------------------------------
(* The specification of names that hold the separator ':': the bags 'a'    *)
(* and 'a:b', and the tiddlers ('a', 'b:c') and ('a:b', 'c').              *)

ColonBags ==
    {[b EXCEPT !.name = name] : b \in PlainBags, name \in {<<"a">>, <<"a", ":", "b">>}}

ColonTiddlers ==
    {[c EXCEPT !.bag = <<"a">>, !.title = <<"b", ":", "c">>] :
        c \in {x \in Contents : x.tags # <<>>}}
    \cup {[c EXCEPT !.bag = <<"a", ":", "b">>, !.title = <<"c">>] :
             c \in {x \in Contents : x.tags = <<>>}}

ColonRefs == {TiddlerRef(t.bag, t.title, None) : t \in ColonTiddlers}

NextColon ==
    \/ \E bag \in ColonBags : BagPut(bag)
    \/ \E tiddler \in ColonTiddlers : TiddlerPut(tiddler)
    \/ \E ref \in ColonRefs : TiddlerGet(ref)
    \/ \E ref \in ColonRefs : TiddlerDelete(ref)
    \/ \E ref \in ColonRefs : ListTiddlerRevisions(ref)

SpecColon == Init /\ [][NextColon]_vars

---------------------------------------------------------------------------
(* The specification of a get during a put: a bag or a recipe exists with  *)
(* a policy; client 1 puts it once more, with a policy of its own, and     *)
(* client 2 gets it, each one redis command at a time.                     *)

\* the puts of the entity of the workload, and its get
ReplacePuts(w) ==
    IF w = "bag" THEN {<<"bag_put", b>> : b \in PolicyBags}
    ELSE {<<"recipe_put", r>> : r \in PolicyRecipes}

ReplaceGet(w) ==
    IF w = "bag" THEN <<"bag_get", [name |-> <<"a">>]>>
    ELSE <<"recipe_get", [name |-> <<"r">>]>>

\* the entity was put by a call that completed; before is the database
\* that the second put finds
InitReplace ==
    /\ workload \in {"bag", "recipe"}
    /\ \E call \in ReplacePuts(workload) :
           \E out \in Run(EmptyDb, call[1], call[2]) :
               /\ db = out.db
               /\ before = out.db
               /\ live = Track(NoneLive, out.l)
    /\ last = Idle
    /\ issued = [e \in Counters |->
                    IF e \in MayIncr(IF workload = "bag" THEN "bag_put" ELSE "recipe_put")
                    THEN <<1>> ELSE <<>>]
    /\ cl = <<Idle, Idle>>
    /\ calls = <<0, 0>>
    /\ broken = {}
    /\ ProcessUp

\* client 1 starts the one put that replaces the policy
StartReplace(call) ==
    /\ cl[1] = Idle
    /\ calls[1] = 0
    /\ cl' = [cl EXCEPT ![1] = NewCall(call[1], call[2])]
    /\ calls' = [calls EXCEPT ![1] = 1]
    /\ UNCHANGED <<db, last, before, live, issued, broken, workload, process>>

\* client 2 starts a get
StartRead ==
    /\ cl[2] = Idle
    /\ calls[1] + calls[2] < MaxCalls
    /\ cl' = [cl EXCEPT ![2] = NewCall(ReplaceGet(workload)[1], ReplaceGet(workload)[2])]
    /\ calls' = [calls EXCEPT ![2] = @ + 1]
    /\ UNCHANGED <<db, last, before, live, issued, broken, workload, process>>

\* the next redis command of the put; the put that ends is the live one
ReplaceCommand ==
    /\ cl[1] # Idle
    /\ \E out \in Step(db, cl[1]) :
           /\ db' = out.db
           /\ cl' = [cl EXCEPT ![1] = IF Done(out.l) THEN Idle ELSE out.l]
           /\ issued' = Issue(issued, cl[1], out.l)
           /\ live' = IF Done(out.l) THEN Track(live, out.l) ELSE live
    /\ UNCHANGED <<last, before, calls, broken, workload, process>>

\* the next redis command of the get; the get that ends hands its result
\* to the caller
ReadCommand ==
    /\ cl[2] # Idle
    /\ \E out \in Step(db, cl[2]) :
           /\ db' = out.db
           /\ cl' = [cl EXCEPT ![2] = IF Done(out.l) THEN Idle ELSE out.l]
           /\ last' = IF Done(out.l) THEN out.l ELSE last
    /\ UNCHANGED <<before, live, issued, calls, broken, workload, process>>

NextReplace ==
    \/ \E call \in ReplacePuts(workload) : StartReplace(call)
    \/ StartRead
    \/ ReplaceCommand
    \/ ReadCommand

SpecReplace == InitReplace /\ [][NextReplace]_vars

---------------------------------------------------------------------------
(* The specification of puts of one tiddler: the bag and the tiddler       *)
(* exist, and the two clients put the tiddler, one redis command at a      *)
(* time.                                                                   *)

RevisedTiddlers == {[c EXCEPT !.bag = <<"a">>, !.title = <<"m">>] : c \in Contents}

InitRevise ==
    /\ workload = "tiddler"
    /\ \E tiddler \in RevisedTiddlers :
           \E made \in Run(EmptyDb, "bag_put", TheBag) :
               \E out \in Run(made.db, "tiddler_put", tiddler) :
                   /\ db = out.db
                   /\ before = out.db
                   /\ live = Track(Track(NoneLive, made.l), out.l)
    /\ last = Idle
    /\ issued = [e \in Counters |-> IF e = "Recipe" \/ e = "User" THEN <<>> ELSE <<1>>]
    /\ cl = <<Idle, Idle>>
    /\ calls = <<0, 0>>
    /\ broken = {}
    /\ ProcessUp

NextRevise ==
    \/ \E c \in Clients : \E tiddler \in RevisedTiddlers :
           Start(c, <<"tiddler_put", tiddler>>)
    \/ \E c \in Clients : Command(c)

SpecRevise == InitRevise /\ [][NextRevise]_vars

---------------------------------------------------------------------------
(* The specification of recipes whose bag names and filters hold the       *)
(* delimiter '?'.                                                          *)

QuestionRecipes ==
    {[r EXCEPT !.recipe = recipe] :
        r \in {x \in PlainRecipes : x.name = <<"r">> /\ x.policy.manage = <<>>
                                     /\ x.recipe = <<>>},
        recipe \in {<<<<<<"a">>, <<>>>>>>,
                    <<<<<<"a">>, <<"b", "?", "c">>>>>>,
                    <<<<<<"a", "?", "b">>, <<"c">>>>>>,
                    <<<<<<"a">>, <<"?">>>>, <<<<"?", "a">>, <<>>>>>>}}

NextQuestion ==
    \/ \E recipe \in QuestionRecipes : RecipePut(recipe)
    \/ \E name \in RecipeNames : RecipeGet(name)

SpecQuestion == Init /\ [][NextQuestion]_vars

---------------------------------------------------------------------------
(* C1 *)

---------------------------------------------------------------------------
(* C2 *)

\* C2: in every state reached by complete calls on a bag and its tiddlers,
\* for every tiddler put N >= 1 times since it was last deleted (or since
\* the start), list_tiddler_revisions returns exactly the N revision ids
\* that those puts appended, the newest first; so after a tiddler_delete
\* and one tiddler_put it returns exactly one id.
C2_RevisionsNewestFirst ==
    \A k \in DOMAIN live.tiddler :
        \A out \in Run(db, "list_tiddler_revisions", TiddlerRef(k[1], k[2], None)) :
            /\ out.l.exc = ""
            /\ out.l.acc = Reverse(live.tiddler[k].revisions)
            /\ \A i \in 1..(Len(out.l.acc) - 1) : out.l.acc[i] > out.l.acc[i + 1]

\* list_tiddler_revisions has just returned the one revision of a tiddler
\* that was put twice, deleted and put again
C2_Witness ==
    /\ last.op = "list_tiddler_revisions"
    /\ last.acc = <<3>>
    /\ <<"tiddler", last.arg.bag, last.arg.title>> \in live.gone
    /\ AttrKey("rvid", IntStr(3), "tid") \in Keys(db)
    /\ uget(db, AttrKey("rvid", IntStr(3), "tid")) = IntStr(2)
    /\ Cardinality(DOMAIN live.tiddler) = 1

---------------------------------------------------------------------------
(* C3 *)

\* the titles of the tiddlers that the bag owns in the database d
Owned(d, bag) == {title \in Titles : Truthy(uget(d, TiddlerKey(bag, title)))}

\* C3: when a bag_delete has just completed, for every tiddler that the bag
\* owned before it, tiddler_get (of the current or of any of its revisions)
\* raises NoTiddlerError, and its forward pointer, its revision list and the
\* modifier key of each of its revisions are no keys of the database.
C3_CascadingDelete ==
    (last.op = "bag_delete" /\ last.exc = "") =>
        \A title \in Owned(before, last.arg.name) :
            LET bag == last.arg.name
                tid == uget(before, TiddlerKey(bag, title))
                revs == lrange(before, AttrKey("tid", tid, "revisions"))
            IN  /\ \A revision \in {None} \cup SeqToSet(revs) :
                       \A out \in Run(db, "tiddler_get", TiddlerRef(bag, title, revision)) :
                           out.l.exc = "NoTiddlerError"
                /\ TiddlerKey(bag, title) \notin Keys(db)
                /\ AttrKey("tid", tid, "revisions") \notin Keys(db)
                /\ \A i \in 1..Len(revs) :
                       AttrKey("rvid", revs[i], "modifier") \notin Keys(db)

\* a bag_delete has just completed on a bag that owned two tiddlers, one of
\* them with two revisions
C3_Witness ==
    /\ last.op = "bag_delete"
    /\ last.exc = ""
    /\ Cardinality(Owned(before, last.arg.name)) = 2
    /\ \E title \in Titles :
           Len(lrange(before, AttrKey("tid", uget(before, TiddlerKey(last.arg.name, title)),
                                      "revisions"))) = 2

---------------------------------------------------------------------------
(* C4 *)

\* C4: in every state reached by complete calls, list_bags, list_recipes and
\* list_users each yield exactly one entity per name that was put and not
\* deleted since, with that name, and nothing else.
C4_ListsExact ==
    /\ \A out \in Run(db, "list_bags", None) :
           /\ out.l.exc = ""
           /\ Len(out.l.acc) = Cardinality(DOMAIN live.bag)
           /\ SeqToSet(out.l.acc) = DOMAIN live.bag
    /\ \A out \in Run(db, "list_recipes", None) :
           /\ out.l.exc = ""
           /\ Len(out.l.acc) = Cardinality(DOMAIN live.recipe)
           /\ SeqToSet(out.l.acc) = DOMAIN live.recipe
    /\ \A out \in Run(db, "list_users", None) :
           /\ out.l.exc = ""
           /\ Len(out.l.acc) = Cardinality(DOMAIN live.user)
           /\ SeqToSet(out.l.acc) = DOMAIN live.user

\* list_users has just yielded the one user left of two, after the delete
\* of the other
C4_Witness ==
    /\ last.op = "list_users"
    /\ last.acc = <<<<"c", "d", "e", "n", "t">>>>
    /\ <<"user", <<"F", "N", "D">>>> \in live.gone
    /\ Counter(db, CounterKey("User")) = 2

---------------------------------------------------------------------------
(* C5 *)

\* C5: recipe_get of a recipe that was put and not deleted since returns
\* exactly the (bag, filter) pairs of the most recent recipe_put, in order.
C5_RecipeRoundTrip ==
    \A name \in DOMAIN live.recipe :
        \A out \in Run(db, "recipe_get", [name |-> name]) :
            /\ out.l.exc = ""
            /\ out.l.acc = live.recipe[name].recipe

---------------------------------------------------------------------------
(* C6 *)

\* per type: the delete and the get handler, the not-found error, the
\* argument that names the same entity and one that names none ever put
Kinds ==
    {[del |-> "bag_delete", get |-> "bag_get", exc |-> "NoBagError"],
     [del |-> "recipe_delete", get |-> "recipe_get", exc |-> "NoRecipeError"],
     [del |-> "user_delete", get |-> "user_get", exc |-> "NoUserError"],
     [del |-> "tiddler_delete", get |-> "tiddler_get", exc |-> "NoTiddlerError"]}

NeverPut(op, arg) ==
    CASE op = "user_delete" -> [usersign |-> <<"z">>]
      [] op = "tiddler_delete" -> TiddlerRef(arg.bag, <<"z">>, None)
      [] OTHER -> [name |-> <<"z">>]

\* C6: when a delete of an existing bag, recipe, user or tiddler has just
\* completed, get of the same name raises the not-found error of the type,
\* and a further delete of it raises that error and leaves every key as it
\* is, as the delete of a name never put does; and a delete that has just
\* raised has changed no key.
C6_DeleteThenNotFound ==
    \A k \in Kinds :
        /\ (last.op = k.del /\ last.exc = "") =>
               /\ \A out \in Run(db, k.get, last.arg) : out.l.exc = k.exc
               /\ \A out \in Run(db, k.del, last.arg) :
                      out.l.exc = k.exc /\ out.db = db
               /\ \A out \in Run(db, k.del, NeverPut(k.del, last.arg)) :
                      out.l.exc = k.exc /\ out.db = db
        /\ (last.op = k.del /\ last.exc # "") => db = before

\* the second delete of a user has just raised NoUserError
C6_Witness ==
    /\ last.op = "user_delete"
    /\ last.exc = "NoUserError"
    /\ <<"user", last.arg.usersign>> \in live.gone
    /\ last.arg.usersign \notin DOMAIN live.user

---------------------------------------------------------------------------
(* C7 *)

\* C7: under any interleaving of the commands of the put (and delete) calls
\* of two clients, every id obtained from a counter ids:next<Entity>ID is
\* strictly greater than every id obtained from that counter before it: no id
\* is handed out twice within one entity type, and the id of a deleted entity
\* is never handed out again.
C7_IdsIncrease ==
    \A e \in Counters :
        \A i, j \in DOMAIN issued[e] : i < j => issued[e][i] < issued[e][j]

\* two bag_put calls of the same unseen name are in progress at once, both
\* past line 181: each has its id from ids:nextBagID
C7_Witness ==
    /\ cl[1].op = "bag_put" /\ cl[1].pc = "L182"
    /\ cl[2].op = "bag_put" /\ cl[2].pc = "L182"
    /\ Len(issued["Bag"]) >= 2

---------------------------------------------------------------------------
(* C8 *)

FivePrincipalSets == {"manage", "accept", "create", "read", "write"}

\* C8: when a bag_put or recipe_put has just completed on an entity that had
\* a policy id before, that id is the one it used and stored, the policy
\* counter is as before, and each of the five principal sets stored under
\* the id is exactly the set of the policy supplied.
C8_PolicyReplaced ==
    (/\ last.op \in {"bag_put", "recipe_put"}
     /\ last.exc = ""
     /\ Truthy(uget(before, PolicyKey(last)))) =>
        /\ last.pid = uget(before, PolicyKey(last))
        /\ uget(db, PolicyKey(last)) = last.pid
        /\ Counter(db, CounterKey("Policy")) = Counter(before, CounterKey("Policy"))
        /\ \A c \in FivePrincipalSets :
               smembers(db, AttrKey("pid", last.pid, c)) = SeqToSet(last.arg.policy[c])

\* a recipe_put has just replaced a policy whose accept held 'fnd' by one
\* whose accept does not
C8_Witness ==
    /\ last.op = "recipe_put"
    /\ last.exc = ""
    /\ Truthy(uget(before, PolicyKey(last)))
    /\ <<"fnd">> \in smembers(before, AttrKey("pid", last.pid, "accept"))
    /\ <<"fnd">> \notin SeqToSet(last.arg.policy.accept)
    /\ <<"fnd">> \notin smembers(db, AttrKey("pid", last.pid, "accept"))

---------------------------------------------------------------------------
(* C9 *)

\* the pid:<pid>:* keys of a policy
PidKeys(d, pid) ==
    {k \in Keys(d) : Len(k) >= 3 /\ SubSeq(k, 1, 3) = <<"pid", ":">> \o Fmt(pid)}

\* C9: when bag_delete on an existing bag was interrupted after one of its
\* commands and bag_delete for the same name was then run again, the second
\* run completes and the store is in the state that the uninterrupted
\* bag_delete would have produced: the bag id is not in 'bags' and no
\* pid:<pid>:* key of its policy remains.
C9_RetryConverges ==
    \A b \in broken :
        (cl[1] = Idle /\ last.op = "bag_delete") =>
            /\ last.exc = ""
            /\ Fmt(b.bid) \notin smembers(db, <<"bags">>)
            /\ PidKeys(db, b.pid) = {}
            /\ db \in {out.db : out \in Run(before, "bag_delete", last.arg)}

---------------------------------------------------------------------------
(* C10 *)

\* the ids that the existing forward pointers <entity>:<name>:<idfield> of
\* the names point to
Pointed(d, entity, names) ==
    {uget(d, EntityKey(entity, name)) :
        name \in {n \in names : EntityKey(entity, n) \in Keys(d)}}

\* the membership sets, with the entity type and the names of each
Memberships ==
    {<<"bags", "bag", BagNames>>, <<"recipes", "recipe", RecipeNames>>,
     <<"users", "user", UserNames>>}

\* C10 (as stated): in every state in which no call is in progress, reached
\* by any interleaving of the commands of the put and delete calls of two
\* clients, 'bags' contains exactly the ids that an existing forward pointer
\* bag:<name>:bid points to; the same for 'recipes' and 'users'.
C10_MembersExactlyPointed ==
    AllIdle =>
        \A m \in Memberships : smembers(db, <<m[1]>>) = Pointed(db, m[2], m[3])

\* C10 (amended): in every state in which no call is in progress, reached by
\* any interleaving of the commands of the put and delete calls of two
\* clients, 'bags' contains every id that an existing forward pointer
\* bag:<name>:bid points to (and possibly ids that no forward pointer points
\* to); the same for 'recipes' and 'users'.
C10_PointedAreMembers ==
    AllIdle =>
        \A m \in Memberships : Pointed(db, m[2], m[3]) \subseteq smembers(db, <<m[1]>>)

\* two bag_put calls of one unseen name have overlapped and have ended: the
\* forward pointer points to one id, 'bags' holds two
C10_Witness ==
    /\ AllIdle
    /\ workload = "bag"
    /\ Cardinality(Pointed(db, "bag", BagNames)) = 1
    /\ Cardinality(smembers(db, <<"bags">>)) = 2

---------------------------------------------------------------------------
(* C11 *)

\* C11: within one process at most one backing-store client is ever
\* constructed, also when several Store objects are constructed concurrently
\* by different threads, and every Store object of the process uses that
\* same client.
C11_OneClient ==
    /\ constructed <= 1
    /\ \A t, u \in Threads :
           (threads[t].pc = "done" /\ threads[u].pc = "done") =>
               threads[t].redis = threads[u].redis

---------------------------------------------------------------------------
(* C12 *)

\* C12: after any sequence of complete user_put calls for a usersign,
\* user_get returns the password credential, the note and the set of roles
\* of the most recent user_put; a role of an earlier put that the latest one
\* lacks is not returned.
C12_UserRoundTrip ==
    \A usersign \in DOMAIN live.user :
        \A out \in Run(db, "user_get", [usersign |-> usersign]) :
            /\ out.l.exc = ""
            /\ out.l.ret.password = live.user[usersign].password
            /\ out.l.ret.note = live.user[usersign].note
            /\ out.l.ret.roles = SeqToSet(live.user[usersign].roles)

---------------------------------------------------------------------------
(* C13 *)

\* C13: when a tiddler_put of any tiddler value (empty strings included)
\* into an existing bag has just been made, it has completed, and tiddler_get
\* of the same bag and title without a revision id succeeds and returns the
\* text, the set of tags, the modifier and the modified that were put, the
\* fields put minus those with the 'server.' prefix, and as revision the id
\* that this put appended.
C13_TiddlerRoundTrip ==
    (/\ last.op = "tiddler_put"
     /\ Truthy(uget(before, EntityKey("bag", last.arg.bag)))) =>
        /\ last.exc = ""
        /\ \A out \in Run(db, "tiddler_get",
                          TiddlerRef(last.arg.bag, last.arg.title, None)) :
               /\ out.l.exc = ""
               /\ out.l.ret.text = last.arg.text
               /\ out.l.ret.tags = SeqToSet(last.arg.tags)
               /\ out.l.ret.modifier = last.arg.modifier
               /\ out.l.ret.modified = last.arg.modified
               /\ out.l.ret.fields = StoredFields(last.arg.fields)
               /\ out.l.ret.revision = last.rvid

---------------------------------------------------------------------------
(* C14 *)

\* C14: after any sequence of complete tiddler_put and tiddler_delete calls,
\* list_bag_tiddlers of a bag that exists yields exactly one tiddler per
\* title put into that bag and not deleted since, each with that title and
\* that bag name, and no tiddler of another bag; on a bag name with no
\* forward pointer it raises NoBagError.
C14_BagListing ==
    \A name \in BagNames :
        \A out \in Run(db, "list_bag_tiddlers", [name |-> name]) :
            IF EntityKey("bag", name) \in Keys(db)
            THEN /\ out.l.exc = ""
                 /\ SeqToSet(out.l.acc) =
                        {[title |-> k[2], bag |-> name] :
                            k \in {x \in DOMAIN live.tiddler : x[1] = name}}
                 /\ Len(out.l.acc) = Cardinality(SeqToSet(out.l.acc))
            ELSE out.l.exc = "NoBagError"

\* both bags hold a tiddler, one bag has had a tiddler deleted, and the other
\* bag has just been listed
C14_Witness ==
    /\ last.op = "list_bag_tiddlers"
    /\ Len(last.acc) >= 1
    /\ \E k \in DOMAIN live.tiddler : k[1] # last.arg.name
    /\ \E g \in live.gone : g[1] = "tiddler" /\ g[2] # last.arg.name

---------------------------------------------------------------------------
(* C15 *)

\* the keys '<idfield>:<id>:...' of the database
IdKeys(d, idfield, id) ==
    {k \in Keys(d) : Len(k) >= 3 /\ SubSeq(k, 1, 3) = <<idfield, ":">> \o Fmt(id)}

\* C15: when tiddler_delete, bag_delete, recipe_delete or user_delete has
\* just completed, no key that the puts wrote for the entity remains: for a
\* tiddler no rvid:<r>:* key of any of its revisions, no tid:<id>:* key and
\* not its forward pointer; for a bag, recipe or user no bid:/rid:/uid:<id>:*
\* key, not the forward pointer, and no pid:<pid>:* key of its policy.
C15_DeletePurges ==
    last.exc = "" =>
        CASE last.op = "tiddler_delete" ->
               /\ IdKeys(db, "tid", last.ttid) = {}
               /\ \A i \in 1..Len(last.revs) : IdKeys(db, "rvid", last.revs[i]) = {}
               /\ TiddlerKey(last.arg.bag, last.arg.title) \notin Keys(db)
          [] last.op = "bag_delete" ->
               /\ IdKeys(db, "bid", last.bid) = {}
               /\ EntityKey("bag", last.arg.name) \notin Keys(db)
               /\ IdKeys(db, "pid", uget(before, AttrKey("bid", last.bid, "policy"))) = {}
          [] last.op = "recipe_delete" ->
               /\ IdKeys(db, "rid", last.rid) = {}
               /\ EntityKey("recipe", last.arg.name) \notin Keys(db)
               /\ IdKeys(db, "pid", uget(before, AttrKey("rid", last.rid, "policy"))) = {}
          [] last.op = "user_delete" ->
               /\ IdKeys(db, "uid", last.uid) = {}
               /\ EntityKey("user", last.arg.usersign) \notin Keys(db)
          [] OTHER -> TRUE

---------------------------------------------------------------------------
(* C16 *)

\* C16: a tiddler_put of a tiddler whose bag name has no forward pointer
\* bag:<name>:bid raises NoBagError and leaves the whole database as it was:
\* no counter advances and no key is written.
C16_PutWithoutBag ==
    (/\ last.op = "tiddler_put"
     /\ EntityKey("bag", last.arg.bag) \notin Keys(before)) =>
        /\ last.exc = "NoBagError"
        /\ db = before

\* a tiddler is put into a bag that was deleted after it had held tiddlers
C16_Witness ==
    /\ last.op = "tiddler_put"
    /\ EntityKey("bag", last.arg.bag) \notin Keys(before)
    /\ Counter(before, CounterKey("Tiddler")) >= 1
    /\ Counter(before, CounterKey("Bag")) >= 1

---------------------------------------------------------------------------
(* C17 *)

\* C17: for a tiddler put one or more times and not deleted since, every
\* tiddler_get that succeeds, with or without a revision id, returns as
\* creator and created the modifier and modified of the first of those puts.
C17_CreatorIsFirstModifier ==
    (/\ last.op = "tiddler_get"
     /\ last.exc = ""
     /\ <<last.arg.bag, last.arg.title>> \in DOMAIN live.tiddler) =>
        LET first == live.tiddler[<<last.arg.bag, last.arg.title>>].first
        IN  /\ last.ret.creator = first.modifier
            /\ last.ret.created = first.modified

---------------------------------------------------------------------------
(* C18 *)

\* the revision that tiddler_get resolves: the one requested, else the last
\* element of tid:<id>:revisions
Resolved(d, ref) ==
    IF Truthy(ref.revision) THEN ref.revision
    ELSE lindex(d, AttrKey("tid", uget(d, TiddlerKey(ref.bag, ref.title)), "revisions"), -1)

\* no modifier is recorded for the revision: the key is absent, or it holds
\* the empty string
NoModifier(d, rvid) ==
    LET key == AttrKey("rvid", rvid, "modifier")
    IN  key \notin DOMAIN d.str \/ d.str[key] = <<>>

\* C18: tiddler_get reads the revision requested when one is given and
\* otherwise the last element of tid:<id>:revisions; it raises NoTiddlerError
\* exactly when the forward pointer is absent or the resolved revision has no
\* modifier recorded (so for a revision id never allocated), and in every
\* other case it succeeds, reports the resolved id as the revision and
\* returns the text and the modifier stored for that id.
C18_ResolvedRevision ==
    last.op = "tiddler_get" =>
        LET rvid == Resolved(db, last.arg)
            absent == TiddlerKey(last.arg.bag, last.arg.title) \notin Keys(db)
        IN  IF absent \/ NoModifier(db, rvid)
            THEN last.exc = "NoTiddlerError"
            ELSE /\ last.exc = ""
                 /\ last.ret.revision = rvid
                 /\ last.ret.modifier = uget(db, AttrKey("rvid", rvid, "modifier"))
                 /\ last.ret.text = uget(db, AttrKey("rvid", rvid, "text"))

\* a tiddler with two revisions has just been read at its first revision,
\* whose text differs from that of the last
C18_Witness ==
    /\ last.op = "tiddler_get"
    /\ last.exc = ""
    /\ <<last.arg.bag, last.arg.title>> \in DOMAIN live.tiddler
    /\ LET t == live.tiddler[<<last.arg.bag, last.arg.title>>]
       IN  /\ Len(t.revisions) = 2
           /\ last.arg.revision = IntStr(t.revisions[1])
           /\ t.first.text # t.tiddler.text

---------------------------------------------------------------------------
(* C19 *)

\* C19: tiddler_get with a revision id returns content only of a revision of
\* the tiddler's own revision list: when the id requested is not in the list
\* of the (bag, title) asked for (it is a revision of another tiddler), the
\* call raises NoTiddlerError.
C19_OwnRevisionsOnly ==
    (/\ last.op = "tiddler_get"
     /\ Truthy(last.arg.revision)
     /\ <<last.arg.bag, last.arg.title>> \in DOMAIN live.tiddler
     /\ StrInt(last.arg.revision)
            \notin SeqToSet(live.tiddler[<<last.arg.bag, last.arg.title>>].revisions)) =>
        last.exc = "NoTiddlerError"

---------------------------------------------------------------------------
(* C20 *)

\* what the caller sees of a call on the database d: the exception, the
\* tiddler returned and the revisions listed
Seen(d, op, arg) == {<<out.l.exc, out.l.ret, out.l.acc>> : out \in Run(d, op, arg)}

\* C20: two different (bag name, title) pairs resolve to different
\* forward-pointer keys, also when the names hold ':': a tiddler_put or
\* tiddler_delete for (bag 'a:b', title 'c') changes neither the result of
\* tiddler_get nor that of list_tiddler_revisions for (bag 'a', title 'b:c').
C20_ColonNamesApart ==
    LET other == TiddlerRef(<<"a">>, <<"b", ":", "c">>, None)
    IN  (/\ last.op \in {"tiddler_put", "tiddler_delete"}
         /\ last.arg.bag = <<"a", ":", "b">>
         /\ last.arg.title = <<"c">>) =>
            /\ TiddlerKey(last.arg.bag, last.arg.title) # TiddlerKey(other.bag, other.title)
            /\ Seen(db, "tiddler_get", other) = Seen(before, "tiddler_get", other)
            /\ Seen(db, "list_tiddler_revisions", other)
                   = Seen(before, "list_tiddler_revisions", other)

---------------------------------------------------------------------------
(* C21 *)

\* the policies that a get running during the put may return: the one
\* stored before the put and, once the put has started, the one it supplies
PolicyBefore == {out.l.policy : out \in Run(before, ReplaceGet(workload)[1],
                                            ReplaceGet(workload)[2])}
PolicySupplied ==
    IF cl[1].op \in {"bag_put", "recipe_put"} THEN {PolicyValue(cl[1].arg.policy)}
    ELSE IF calls[1] = 0 THEN {}
    ELSE IF workload = "bag" THEN {PolicyValue(live.bag[<<"a">>].policy)}
    ELSE {PolicyValue(live.recipe[<<"r">>].policy)}

\* C21: a bag_get or recipe_get that has completed, whatever part of a
\* bag_put or recipe_put replacing the policy of the entity ran during it,
\* has returned for each of the five principal sets the set stored before
\* the put or the set that the put supplies.
C21_PolicyOldOrNew ==
    (last.op \in {"bag_get", "recipe_get"} /\ last.exc = "") =>
        \A attr \in FivePrincipalSets :
            \E policy \in PolicyBefore \cup PolicySupplied :
                last.policy[attr] = policy[attr]

---------------------------------------------------------------------------
(* C22 *)

\* the list tid:<tid>:revisions of the tiddler put by the clients
RevisionsStored ==
    lrange(db, AttrKey("tid", uget(db, TiddlerKey(<<"a">>, <<"m">>)), "revisions"))

\* C22: when two or more tiddler_put calls on the tiddler, which existed
\* before them, have completed and none is in progress, the ids of
\* tid:<tid>:revisions are strictly increasing in storage order and
\* list_tiddler_revisions returns them strictly decreasing.
C22_RevisionsIncrease ==
    (AllIdle /\ calls[1] + calls[2] >= 2) =>
        /\ \A i \in 1..(Len(RevisionsStored) - 1) :
               StrInt(RevisionsStored[i]) < StrInt(RevisionsStored[i + 1])
        /\ \A out \in Run(db, "list_tiddler_revisions",
                          TiddlerRef(<<"a">>, <<"m">>, None)) :
               \A i \in 1..(Len(out.l.acc) - 1) : out.l.acc[i] > out.l.acc[i + 1]

---------------------------------------------------------------------------
(* C23 *)

\* the ids in bid:<bid>:tiddlers of the bag of the clients
BagMembers ==
    smembers(db, AttrKey("bid", uget(db, EntityKey("bag", TheBag.name)), "tiddlers"))

\* C23: in every state in which no call is in progress, reached by any
\* interleaving of the commands of the tiddler_put and tiddler_delete calls of
\* two clients on tiddlers of the one existing bag, every id of
\* bid:<bid>:tiddlers has a key tid:<id>:title, and the forward pointer
\* tiddler:<bag>:<title>:tid of that title exists and holds the id; and
\* bag_delete of the bag completes without an exception.
C23_MembersDeletable ==
    (AllIdle /\ workload = "tiddler") =>
        /\ \A id \in BagMembers :
               /\ AttrKey("tid", id, "title") \in Keys(db)
               /\ LET title == uget(db, AttrKey("tid", id, "title"))
                  IN  /\ TiddlerKey(TheBag.name, title) \in Keys(db)
                      /\ uget(db, TiddlerKey(TheBag.name, title)) = id
        /\ \A out \in Run(db, "bag_delete", [name |-> TheBag.name]) : out.l.exc = ""

---------------------------------------------------------------------------
(* C24 *)

\* C24: when a recipe_put of a name that had no forward pointer, in a store
\* where no recipe is ever deleted, has just completed, recipe_get of the
\* name raises nothing and returns exactly the (bag, filter) pairs put, in
\* order, also when a bag name or a filter holds '?'.
C24_QuestionRoundTrip ==
    (/\ last.op = "recipe_put"
     /\ last.exc = ""
     /\ EntityKey("recipe", last.arg.name) \notin Keys(before)) =>
        \A out \in Run(db, "recipe_get", [name |-> last.arg.name]) :
            /\ out.l.exc = ""
            /\ out.l.acc = last.arg.recipe

=============================================================================
